---- MODULE Spec2Model ----
(***************************************************************************)
(* store-bridge: a host ("native") bridge that owns the authoritative      *)
(* state of keyed stores and mirrors it into a WebView, and the client     *)
(* ("web") bridge that runs inside that WebView.                            *)
(*                                                                         *)
(*   host   : src/src/native/index.ts   createNativeBridge                 *)
(*   client : src/unnamed/part_000      createBridge / createStore         *)
(*   patches: the fast-json-patch calls the two sides make                 *)
(*            (jsonpatch.compare on the host, jsonpatch.applyPatch on the  *)
(*            client, which mutates the document it is given)              *)
(***************************************************************************)
EXTENDS Integers, Sequences, FiniteSets, TLC

(***************************************************************************)
(* Bounds of the model.                                                    *)
(***************************************************************************)
MaxCount == 2      \* the reducer / recipes keep count in 0..MaxCount
MaxItems == 2      \* the host keeps at most MaxItems elements in items
MaxQueue == 2      \* envelopes in flight towards the WebView
MaxPosted == 1     \* envelopes in flight towards the host
MaxInjected == 1   \* foreign STATE_PATCH envelopes the transport delivers
MaxListeners == 2  \* subscribe calls per store
MaxGetStore == 2   \* getStore calls on the client bridge
MaxDelivered == 2  \* envelopes delivered to a page with several mirror stores

(***************************************************************************)
(* JSON values.  Every value is a record of one shape so that any two of   *)
(* them can be compared: a number, a string, null or an array of numbers   *)
(* (an array element of Null is a hole / null).                            *)
(***************************************************************************)
Null == 0 - 1

Num(n) == [t |-> "num", n |-> n, s |-> "", a |-> <<>>]

Str(s) == [t |-> "str", n |-> 0, s |-> s, a |-> <<>>]

Arr(a) == [t |-> "arr", n |-> 0, s |-> "", a |-> a]

\* A state object: a function from the property names it has to values.
EmptyDoc == [f \in {} |-> Num(0)]

Put(doc, f, v) == [g \in (DOMAIN doc) \cup {f} |-> IF g = f THEN v ELSE doc[g]]

Del(doc, f) == [g \in (DOMAIN doc) \ {f} |-> doc[g]]

\* Property order of the state objects (the order of the initial state
\* literal; spreading and JSON cloning keep it).
KeyOrder == <<"count", "name", "items">>

KeysOf(doc) == SelectSeq(KeyOrder, LAMBDA f : f \in DOMAIN doc)

Reverse(s) == [i \in 1..Len(s) |-> s[Len(s) + 1 - i]]

RECURSIVE SumSeq(_)
SumSeq(s) == IF s = <<>> THEN 0 ELSE Head(s) + SumSeq(Tail(s))

(***************************************************************************)
(* JSON.stringify(x).length                                                *)
(***************************************************************************)
DigitsLen(n) == IF n = Null THEN 4 ELSE IF n < 10 THEN 1 ELSE 2

Commas(n) == IF n = 0 THEN 0 ELSE n - 1

ValueJsonLen(v) ==
  CASE v.t = "num" -> DigitsLen(v.n)
    [] v.t = "str" -> Len(v.s) + 2
    [] v.t = "arr" -> 2 + SumSeq([i \in 1..Len(v.a) |-> DigitsLen(v.a[i])])
                        + Commas(Len(v.a))

DocJsonLen(doc) ==
  LET ks == KeysOf(doc)
  IN 2 + SumSeq([i \in 1..Len(ks) |-> Len(ks[i]) + 3 + ValueJsonLen(doc[ks[i]])])
       + Commas(Len(ks))

(***************************************************************************)
(* JSON-Patch operations {op, path, value}.  The path is /key or /key/idx; *)
(* NoIdx marks the first form.                                             *)
(***************************************************************************)
NoIdx == 0 - 1

Op(o, f, i, v) == [op |-> o, key |-> f, idx |-> i, value |-> v]

PathLen(op) == 1 + Len(op.key) + (IF op.idx = NoIdx THEN 0 ELSE 1 + DigitsLen(op.idx))

OpJsonLen(op) ==
  2 + (5 + Len(op.op) + 2) + 1 + (7 + PathLen(op) + 2)
    + (IF op.op = "remove" THEN 0 ELSE 1 + 8 + ValueJsonLen(op.value))

PatchJsonLen(patch) ==
  2 + SumSeq([i \in 1..Len(patch) |-> OpJsonLen(patch[i])]) + Commas(Len(patch))

(***************************************************************************)
(* jsonpatch.compare(mirror, obj): the operations turning mirror into obj. *)
(* For each old property, last to first: recurse into a pair of arrays,    *)
(* replace a changed value, remove a dropped one; then, if something was   *)
(* removed or the number of properties differs, add the new properties.    *)
(***************************************************************************)
NoOp == Op("noop", "", NoIdx, Num(0))

Real(ops) == SelectSeq(ops, LAMBDA o : o # NoOp)

RECURSIVE Flatten(_)
Flatten(ss) == IF ss = <<>> THEN <<>> ELSE Head(ss) \o Flatten(Tail(ss))

ArrayOps(f, a, b) ==
  LET old == [i \in 1..Len(a) |->
                LET t == Len(a) + 1 - i
                IN IF t <= Len(b)
                     THEN IF a[t] # b[t] THEN Op("replace", f, t - 1, Num(b[t])) ELSE NoOp
                     ELSE Op("remove", f, t - 1, Num(0))]
      new == [t \in 1..Len(b) |->
                IF t > Len(a) THEN Op("add", f, t - 1, Num(b[t])) ELSE NoOp]
  IN Real(old) \o (IF Len(a) = Len(b) THEN <<>> ELSE Real(new))

Compare(mirror, obj) ==
  LET oldKeys == KeysOf(mirror)
      newKeys == KeysOf(obj)
      rev == Reverse(oldKeys)
      old == [i \in 1..Len(rev) |->
                LET f == rev[i]
                IN IF f \in DOMAIN obj
                     THEN IF mirror[f].t = "arr" /\ obj[f].t = "arr"
                            THEN ArrayOps(f, mirror[f].a, obj[f].a)
                            ELSE IF mirror[f] # obj[f]
                                   THEN <<Op("replace", f, NoIdx, obj[f])>>
                                   ELSE <<>>
                     ELSE <<Op("remove", f, NoIdx, Num(0))>>]
      deleted == \E f \in DOMAIN mirror : f \notin DOMAIN obj
      new == [i \in 1..Len(newKeys) |->
                IF newKeys[i] \notin DOMAIN mirror
                  THEN Op("add", newKeys[i], NoIdx, obj[newKeys[i]])
                  ELSE NoOp]
  IN Flatten(old)
       \o (IF ~deleted /\ Len(newKeys) = Len(oldKeys) THEN <<>> ELSE Real(new))

(***************************************************************************)
(* jsonpatch.applyPatch(document, patch) as the client calls it: no        *)
(* validation, and the document is mutated in place, operation by          *)
(* operation.  An operation throws when its path runs through a missing    *)
(* property, when its op is unknown, or when a test does not match.  The   *)
(* result is [ok, doc]: doc is what the document holds when applyPatch     *)
(* returns or throws.                                                      *)
(***************************************************************************)
InsertAt(a, i, n) ==
  LET p == IF i > Len(a) THEN Len(a) ELSE i
  IN SubSeq(a, 1, p) \o <<n>> \o SubSeq(a, p + 1, Len(a))

RemoveAt(a, i) ==
  IF i < Len(a) THEN SubSeq(a, 1, i) \o SubSeq(a, i + 2, Len(a)) ELSE a

SetAt(a, i, n) ==
  [j \in 1..(IF i < Len(a) THEN Len(a) ELSE i + 1) |->
     IF j = i + 1 THEN n ELSE IF j <= Len(a) THEN a[j] ELSE Null]

Thrown(doc) == [ok |-> FALSE, doc |-> doc]

Done(doc) == [ok |-> TRUE, doc |-> doc]

ApplyOperation(doc, op) ==
  IF op.op \notin {"add", "remove", "replace", "test"} THEN Thrown(doc)
  ELSE IF op.idx = NoIdx THEN
    CASE op.op \in {"add", "replace"} -> Done(Put(doc, op.key, op.value))
      [] op.op = "remove" -> Done(Del(doc, op.key))
      [] op.op = "test" ->
           IF op.key \in DOMAIN doc /\ doc[op.key] = op.value
             THEN Done(doc) ELSE Thrown(doc)
  ELSE IF op.key \notin DOMAIN doc THEN Thrown(doc)
  ELSE IF doc[op.key].t # "arr" THEN
    (IF op.op = "remove" THEN Done(doc) ELSE Thrown(doc))
  ELSE
    LET a == doc[op.key].a
        n == IF op.value.t = "num" THEN op.value.n ELSE Null
    IN CASE op.op = "add" -> Done(Put(doc, op.key, Arr(InsertAt(a, op.idx, n))))
         [] op.op = "remove" -> Done(Put(doc, op.key, Arr(RemoveAt(a, op.idx))))
         [] op.op = "replace" -> Done(Put(doc, op.key, Arr(SetAt(a, op.idx, n))))
         [] op.op = "test" ->
              IF op.idx < Len(a) /\ op.value = Num(a[op.idx + 1])
                THEN Done(doc) ELSE Thrown(doc)

RECURSIVE ApplyPatch(_, _)
ApplyPatch(doc, patch) ==
  IF patch = <<>> THEN Done(doc)
  ELSE LET r == ApplyOperation(doc, Head(patch))
       IN IF r.ok THEN ApplyPatch(r.doc, Tail(patch)) ELSE r

(***************************************************************************)
(* The integrator's inputs: store keys, state shapes, events, recipes.     *)
(***************************************************************************)
Keys == {"counter"}

\* Map iteration order over the keys
KeysSeq == <<"counter">>

\* the keys a page asks mirror stores for: the host's and one more
MirrorKeys == Keys \cup {"settings"}

MirrorKeysSeq == KeysSeq \o <<"settings">>

Views == {"w1"}

\* the objects handed to registerWebView: the WebView that runs the page, a
\* second endpoint, and one whose injectJavaScript calls
\* registerWebView(PageView) while it runs
Endpoints == {"w1", "w2", "w3"}

PageView == "w1"

Hook == "w3"

\* the endpoints whose injectJavaScript can throw
Faulty == {"w2"}

\* no script injected into any endpoint
NoneSent == [v \in Endpoints |-> <<>>]

ItemValues == {1}

SmallState == "count" :> Num(0)

\* the test state's shape {count, name, items}; the name is long enough for
\* a one-operation patch to serialise shorter than the state
BigState ==
  ("count" :> Num(0)) @@ ("name" :> Str("OpenGame Player")) @@ ("items" :> Arr(<<>>))

InitialStates == {SmallState, BigState}

\* the same shape with a name of twelve characters: the state serialises to
\* as many characters as the patch that replaces its count
EdgeState ==
  ("count" :> Num(0)) @@ ("name" :> Str("Player Three")) @@ ("items" :> Arr(<<>>))

\* config.stores[key] = {initialState, reducer}
Configured(state) ==
  [present |-> TRUE, hasInitial |-> TRUE, initialState |-> state, hasReducer |-> TRUE]

\* config.stores[key]: absent, or {initialState?, reducer?}
StoreConfigs ==
  [present : {FALSE}, hasInitial : {FALSE}, initialState : {EmptyDoc}, hasReducer : {FALSE}]
    \cup [present : {TRUE}, hasInitial : {TRUE}, initialState : InitialStates,
          hasReducer : BOOLEAN]
    \cup [present : {TRUE}, hasInitial : {FALSE}, initialState : {EmptyDoc},
          hasReducer : BOOLEAN]

Event(t, p) == [type |-> t, payload |-> p]

Events == {Event("INCREMENT", 0)} \cup {Event("ADD_ITEM", v) : v \in ItemValues}

\* the events of the reducer and one of a type it does not know
NativeEvents == Events \cup {Event("UNKNOWN", 0)}

\* the events of the reducer that take count back down as well
PolicyEvents == Events \cup {Event("DECREMENT", 0)}

\* ... and the one that needs no property of the state it is given
RenameEvents == Events \cup {Event("RENAME", 0)}

\* event.payload of a RENAME event
NewName == "Renamed"

\* The reducer bound to a key (the test reducer of the native bridge).
Reducer(state, event) ==
  CASE event.type = "INCREMENT" -> Put(state, "count", Num(state["count"].n + 1))
    [] event.type = "RENAME" -> Put(state, "name", Str(NewName))
    [] event.type = "DECREMENT" -> Put(state, "count", Num(state["count"].n - 1))
    [] event.type = "ADD_ITEM" ->
         Put(state, "items", Arr(Append(state["items"].a, event.payload)))
    [] OTHER -> state

\* The events the reducer can take in a state (it reads state.count or
\* spreads state.items) without leaving the bounds of the model.
Reducible(state, event) ==
  CASE event.type = "INCREMENT" -> "count" \in DOMAIN state /\ state["count"].n < MaxCount
    [] event.type = "DECREMENT" -> "count" \in DOMAIN state /\ state["count"].n > 0
    [] event.type = "ADD_ITEM" ->
         "items" \in DOMAIN state /\ Len(state["items"].a) < MaxItems
    [] OTHER -> TRUE

Recipes == {"bump", "pop"}

\* ... and a recipe that deletes a property
DeletingRecipes == Recipes \cup {"drop"}

\* recipe(draft): "bump" is draft.count = (draft.count || 0) + 1,
\* "pop" is draft.items.pop(), "drop" is delete draft.count.
Recipe(r, draft) ==
  CASE r = "bump" ->
         Put(draft, "count",
             Num((IF "count" \in DOMAIN draft THEN draft["count"].n ELSE 0) + 1))
    [] r = "pop" ->
         Put(draft, "items", Arr(SubSeq(draft["items"].a, 1, Len(draft["items"].a) - 1)))
    [] r = "drop" -> Del(draft, "count")

Applicable(r, state) ==
  CASE r = "bump" -> IF "count" \in DOMAIN state THEN state["count"].n < MaxCount ELSE TRUE
    [] r = "pop" -> "items" \in DOMAIN state /\ state["items"].a # <<>>
    [] r = "drop" -> "count" \in DOMAIN state

\* utils.produce: the recipe applied to a JSON clone of the state.
Produce(state, r) == Recipe(r, state)

(***************************************************************************)
(* utils.produce on objects with identity.  A heap is a sequence of cells  *)
(* (objects and arrays), a reference is the index of a cell, and a cell    *)
(* holds primitives and references, so that two values can share a nested  *)
(* object and a write through one shows through the other.                 *)
(***************************************************************************)
MaxCells == 16

MaxTodos == 2

Bool(b) == [t |-> "bool", n |-> IF b THEN 1 ELSE 0, s |-> "", a |-> <<>>]

Ref(c) == [t |-> "ref", n |-> c, s |-> "", a |-> <<>>]

NoRef == Ref(0)

Object(keys, vals) == [kind |-> "obj", keys |-> keys, vals |-> vals]

Array(vals) == [kind |-> "arr", keys |-> <<>>, vals |-> vals]

KeyIndex(keys, key) == CHOOSE i \in 1..Len(keys) : keys[i] = key

\* object.key
Field(h, object, key) == h[object.n].vals[KeyIndex(h[object.n].keys, key)]

\* object.key = val
SetField(h, object, key, val) ==
  [h EXCEPT ![object.n].vals[KeyIndex(h[object.n].keys, key)] = val]

\* array[i] (i from 1)
Item(h, array, i) == h[array.n].vals[i]

\* array.push(val)
Push(h, array, val) == [h EXCEPT ![array.n].vals = Append(@, val)]

\* The cells a value reaches.
RECURSIVE Reach(_, _)
Reach(h, v) ==
  IF v.t = "ref"
    THEN {v.n} \cup UNION {Reach(h, h[v.n].vals[i]) : i \in 1..Len(h[v.n].vals)}
    ELSE {}

\* JSON.stringify(value): the text, kept as the tree it spells out; it holds
\* the members' names and the primitives and no object identity.
RECURSIVE Stringify(_, _)
Stringify(h, v) ==
  IF v.t = "ref"
    THEN [t |-> h[v.n].kind, n |-> 0, s |-> "", keys |-> h[v.n].keys,
          vals |-> [i \in 1..Len(h[v.n].vals) |-> Stringify(h, h[v.n].vals[i])]]
    ELSE [t |-> v.t, n |-> v.n, s |-> v.s, keys |-> <<>>, vals |-> <<>>]

\* JSON.parse(text): every object and array of the text is a new cell.
RECURSIVE Parse(_, _), ParseEach(_, _, _, _)
ParseEach(h, texts, i, vals) ==
  IF i > Len(texts)
    THEN [heap |-> h, vals |-> vals]
    ELSE LET member == Parse(h, texts[i])
         IN ParseEach(member.heap, texts, i + 1, Append(vals, member.value))

Parse(h, text) ==
  IF text.t \in {"obj", "arr"}
    THEN LET members == ParseEach(h, text.vals, 1, <<>>)
         IN [heap |-> Append(members.heap,
                             [kind |-> text.t, keys |-> text.keys, vals |-> members.vals]),
             value |-> Ref(Len(members.heap) + 1)]
    ELSE [heap |-> h, value |-> [t |-> text.t, n |-> text.n, s |-> text.s, a |-> <<>>]]

\* { ...state }: a new top-level object over the same nested objects.
Spread(h, state) == [heap |-> Append(h, h[state.n]), value |-> Ref(Len(h) + 1)]

\* const draft = JSON.parse(JSON.stringify(state))
Clone(h, state) == Parse(h, Stringify(h, state))

\* The recipes of the produce tests: a flat write, two nested writes, and a
\* write into an array element followed by a push.
DraftRecipes == {"count", "user", "todos"}

\* recipe(draft)
Mutate(r, h, draft) ==
  CASE r = "count" -> SetField(h, draft, "count", Num(1))
    [] r = "user" ->
         LET user == Field(h, draft, "user")
             named == SetField(h, user, "name", Str("Jane"))
         IN SetField(named, Field(named, user, "settings"), "theme", Str("dark"))
    [] r = "todos" ->
         LET todos == Field(h, draft, "todos")
             done == SetField(h, Item(h, todos, 1), "completed", Bool(TRUE))
             made == Append(done, Object(<<"id", "completed">>, <<Num(3), Bool(FALSE)>>))
         IN Push(made, todos, Ref(Len(made)))

\* draft.todos[0] is an object (else the recipe throws).
Mutable(r, h, state) == r = "todos" => h[Field(h, state, "todos").n].vals # <<>>

\* The initial state of the tests as objects: settings, user, the todos,
\* the todos array and the state object itself, which is the last cell.
InitialHeap(count, theme, completed) ==
  LET nested == << Object(<<"theme", "notifications">>, <<Str(theme), Bool(TRUE)>>),
                   Object(<<"name", "settings">>, <<Str("John"), Ref(1)>>) >>
      todos == [i \in 1..Len(completed) |->
                  Object(<<"id", "completed">>, <<Num(i), Bool(completed[i])>>)]
      array == Array([i \in 1..Len(completed) |-> Ref(2 + i)])
  IN nested \o todos \o <<array>>
       \o << Object(<<"count", "user", "todos">>,
                    <<Num(count), Ref(2), Ref(3 + Len(completed))>>) >>

(***************************************************************************)
(* Listeners.  Host, mirror and mock stores keep them the same way: an     *)
(* array that subscribe pushes to, that a for-of loop notifies, and that   *)
(* an unsubscribe closure splices by indexOf(listener).                    *)
(***************************************************************************)
\* "l1" only looks at the state it is called with; "once" calls its own
\* unsubscribe closure when it is notified of a change.
Listeners == {"l1", "once"}

\* the listeners that call no store method from inside their callback
Plain == {"l1"}

\* "again" dispatches an INCREMENT to the store from inside its callback
\* when it is notified of a state whose count is 1.
ReactingListeners == {"l1", "again"}

Reacts(l, state) == l = "again" /\ "count" \in DOMAIN state /\ state["count"] = Num(1)

Reaction == Event("INCREMENT", 0)

\* the listeners that call their own unsubscribe closure when notified
Leaving == {"once"}

\* listeners.indexOf(listener), 0 when absent
IndexOf(list, l) ==
  IF \E i \in 1..Len(list) : list[i] = l
    THEN CHOOSE i \in 1..Len(list) : list[i] = l /\ \A j \in 1..(i - 1) : list[j] # l
    ELSE 0

\* an unsubscribe closure that leaves the array alone
UnsubscribedNever(list, l) == list

\* the unsubscribe closure of a subscription of l: splice(index, 1) when found
Unsubscribed(list, l) ==
  LET i == IndexOf(list, l)
  IN IF i = 0 THEN list
       ELSE [j \in 1..(Len(list) - 1) |-> IF j < i THEN list[j] ELSE list[j + 1]]

\* for (const listener of listeners) listener(state): the array iterator
\* reads the live array at the next index, so a splice made by a callback
\* moves the listeners behind it.  [list, called]: the array afterwards and
\* the listeners invoked, in order.
RECURSIVE NotifyLoop(_, _, _)
NotifyLoop(list, i, called) ==
  IF i > Len(list)
    THEN [list |-> list, called |-> called]
    ELSE LET l == list[i]
         IN NotifyLoop(IF l \in Leaving THEN Unsubscribed(list, l) ELSE list,
                       i + 1, Append(called, l))

\* a subscription: the listener, and whether its unsubscribe closure ran
Subscription(l) == [listener |-> l, used |-> FALSE]

\* the subscriptions after the unsubscribe closures of the listeners in
\* called that leave when notified ran from inside the notification
SelfUnsubscribed(subs, called) ==
  [i \in 1..Len(subs) |->
     IF subs[i].listener \in Leaving
        /\ \E j \in 1..Len(called) : called[j] = subs[i].listener
       THEN [subs[i] EXCEPT !.used = TRUE]
       ELSE subs[i]]

(***************************************************************************)
(* Envelopes.                                                              *)
(***************************************************************************)
NoEvent == Event("", 0)

NoDispatch == [key |-> "", event |-> NoEvent]

Envelope(t, k, payload, patches, event) ==
  [type |-> t, key |-> k, payload |-> payload, patches |-> patches, event |-> event]

StateUpdate(k, state) == Envelope("STATE_UPDATE", k, state, <<>>, NoEvent)

StatePatch(k, patches) == Envelope("STATE_PATCH", k, EmptyDoc, patches, NoEvent)

InitStore(k) == Envelope("INIT_STORE", k, EmptyDoc, <<>>, NoEvent)

EventEnvelope(k, e) == Envelope("EVENT", k, EmptyDoc, <<>>, e)

RequestFullState(k) == Envelope("REQUEST_FULL_STATE", k, EmptyDoc, <<>>, NoEvent)

\* a message whose data is the text of a STATE_UPDATE for k cut off before
\* its end: not valid JSON
Malformed(k) ==
  [type |-> "STATE_UPDATE", key |-> k, payload |-> EmptyDoc, patches |-> <<>>,
   event |-> NoEvent, cut |-> TRUE]

\* a parser that takes the text up to the cut for the message
ParsesAlways(m) == TRUE

\* JSON.parse(event.data) returns (it throws a SyntaxError otherwise)
Parses(m) == "cut" \notin DOMAIN m

\* STATE_PATCH envelopes that reach the WebView's message event without
\* coming from the host's compare: one whose second operation runs through a
\* missing property, one guarded by a test operation.
ForeignPatches ==
  { <<Op("replace", "count", NoIdx, Num(9)), Op("add", "ghost", 0, Num(1))>>,
    <<Op("test", "count", NoIdx, Num(0)), Op("replace", "count", NoIdx, Num(1))>> }

(***************************************************************************)
(* State.                                                                  *)
(***************************************************************************)
VARIABLES
  \* utils.produce
  heap,                \* the objects and arrays there are
  initialState,        \* the state handed to produce
  producedState,            \* the value produce returned
  lastRecipe,          \* the recipe of the produce call of the last step, if any
  \* host (createNativeBridge)
  stateMap,            \* Map key -> authoritative state
  reducers,            \* Map key -> reducer: the keys that have an entry
  stores,              \* Map key -> host store (its identity)
  previousStates,      \* Map key -> last broadcast snapshot
  registeredWebViews,  \* array of attached WebViews
  nativeListeners,     \* per host store: the closure array listeners
  nativeUnsubs,        \* per host store: the subscriptions made, in order
  handles,             \* per endpoint: the state of its unregister closure
  throwing,            \* the endpoints whose injectJavaScript throws for now
  \* transport
  toWeb,               \* injected scripts not yet run in the WebView, in order
  toNative,            \* posted messages not yet seen by the host, in order
  injected,            \* foreign envelopes delivered so far
  \* client (createBridge / createStore inside the WebView)
  hasRNWebView,        \* window.ReactNativeWebView is defined
  supported,           \* isWebViewEnvironment() when createBridge ran
  storePromises,       \* Map key -> promise (its identity)
  storeInstances,      \* Map key -> store (its identity)
  currentState,        \* per store: the closure variable currentState
  listeners,           \* per store: the closure array listeners
  unsubs,              \* per store: the subscriptions made, in order
  handling,            \* the keys whose store added its messageHandler
  getStoreCalls,       \* getStore calls made so far
  \* observation
  calls,               \* listener invocations of the last step, in order
  nativeCalls,         \* host listener invocations of the last step, in order
  lastDispatch,        \* the store.dispatch call of the last step, if it was one
  lastNativeDispatch,  \* the host store.dispatch call of the last step, if any
  sentTo,              \* per endpoint: the scripts injected in the last step
  nativeReturned,      \* per key: the stores the host's getStore resolved to
  missed,              \* keys with an envelope that no messageHandler took
  returned,            \* per key: the promises getStore has returned
  created,             \* per key: createStore calls so far
  initPosted,          \* per key: INIT_STORE envelopes posted
  gotState,            \* keys for which a STATE_UPDATE / STATE_PATCH arrived
  hostHistory,         \* per key: every value the authoritative state held
  \* testing (createMockBridge / createMockNativeBridge) and react
  mockConfig,          \* the config the mock bridge was created with
  mockStore,           \* storeCache.get(key): the mock store, once made
  mockCalls,           \* mock listener invocations of the last step, in order
  lastMock,            \* the dispatch or produce call of the last step, if any
  bridgeContext,       \* BridgeContext holds a bridge
  storeContext,        \* StoreContext holds a store
  hook                 \* the useSelector call of a mounted component

hostVars ==
  <<stateMap, reducers, stores, previousStates, registeredWebViews, nativeListeners,
    nativeUnsubs, handles, throwing>>

wireVars == <<toWeb, toNative, injected>>

clientVars ==
  <<hasRNWebView, supported, storePromises, storeInstances, currentState, listeners,
    unsubs, handling, getStoreCalls>>

obsVars ==
  <<calls, nativeCalls, lastDispatch, lastNativeDispatch, sentTo, nativeReturned, missed,
    returned, created, initPosted, gotState, hostHistory>>

utilVars == <<heap, initialState, producedState, lastRecipe>>

mockVars == <<mockConfig, mockStore, mockCalls, lastMock, bridgeContext, storeContext, hook>>

vars == <<hostVars, wireVars, clientVars, obsVars, utilVars, mockVars>>

\* stateMap.get(key) || {}
HostState(k) == IF k \in DOMAIN stateMap THEN stateMap[k] ELSE EmptyDoc

MapSet(m, k, v) == [x \in (DOMAIN m) \cup {k} |-> IF x = k THEN v ELSE m[x]]

(***************************************************************************)
(* createNativeBridge(config) and createBridge() have run.                 *)
(***************************************************************************)
CreatedBridges(config, probe) ==
    LET withState == {k \in Keys : config[k].present /\ config[k].hasInitial}
    IN /\ stateMap = [k \in withState |-> config[k].initialState]
       /\ reducers = {k \in withState : config[k].hasReducer}
       /\ stores = [k \in {} |-> 0]
       /\ previousStates = [k \in {} |-> EmptyDoc]
       /\ registeredWebViews = <<>>
       /\ nativeListeners = [k \in {} |-> <<>>]
       /\ nativeUnsubs = [k \in {} |-> <<>>]
       /\ handles = [v \in Endpoints |-> "none"]
       /\ throwing = {}
       /\ toWeb = <<>>
       /\ toNative = <<>>
       /\ injected = 0
       /\ hasRNWebView = probe
       /\ supported = probe
       /\ storePromises = [k \in {} |-> 0]
       /\ storeInstances = [k \in {} |-> 0]
       /\ currentState = [k \in {} |-> EmptyDoc]
       /\ listeners = [k \in {} |-> <<>>]
       /\ unsubs = [k \in {} |-> <<>>]
       /\ handling = {}
       /\ getStoreCalls = 0
       /\ calls = <<>>
       /\ nativeCalls = <<>>
       /\ lastNativeDispatch = NoDispatch
       /\ sentTo = NoneSent
       /\ nativeReturned = [k \in Keys |-> {}]
       /\ returned = [k \in MirrorKeys |-> {}]
       /\ created = [k \in MirrorKeys |-> 0]
       /\ lastDispatch = NoDispatch
       /\ missed = {}
       /\ initPosted = [k \in MirrorKeys |-> 0]
       /\ gotState = {}
       /\ hostHistory =
            [k \in Keys |-> {IF k \in withState THEN config[k].initialState ELSE EmptyDoc}]

\* storeCache without a store for the key
NoMockStore == [made |-> FALSE, state |-> EmptyDoc, listeners |-> <<>>, reducing |-> FALSE]

NoMockCall == [op |-> "", before |-> EmptyDoc, event |-> Event("", 0), recipe |-> ""]

\* undefined
Undefined == [t |-> "undefined", n |-> 0, s |-> "", a |-> <<>>]

\* no component has called useSelector
Unmounted ==
  [mounted |-> FALSE, hasMemo |-> FALSE, memoizedSnapshot |-> 0, memoizedSelection |-> Undefined,
   previousSelection |-> Undefined, rendered |-> Undefined, told |-> 0]

\* createMockBridge(config) / createMockNativeBridge(config), nothing
\* rendered
MockCreated(config) ==
  /\ mockConfig = config
  /\ mockStore = NoMockStore
  /\ mockCalls = <<>>
  /\ lastMock = NoMockCall
  /\ bridgeContext = FALSE
  /\ storeContext = FALSE
  /\ hook = Unmounted

\* createMockBridge()
NoMockConfig ==
  [supported |-> TRUE, present |-> FALSE, initialState |-> EmptyDoc, reducer |-> ""]

\* ... and produce has not been called, and no mock bridge is used.
Created(config, probe) ==
  /\ CreatedBridges(config, probe)
  /\ heap = <<>>
  /\ initialState = NoRef
  /\ producedState = NoRef
  /\ lastRecipe = ""
  /\ MockCreated(NoMockConfig)

Init == \E config \in [Keys -> StoreConfigs], probe \in BOOLEAN : Created(config, probe)

(***************************************************************************)
(* Host: transport fan-out.                                                *)
(***************************************************************************)
\* one injectJavaScript(js) call that returned: the envelope the script
\* dispatches, and previousStates.get(key) at the time of the call
Injection(env, prev) ==
  [env |-> env, baseline |-> IF env.key \in DOMAIN prev THEN prev[env.key] ELSE EmptyDoc]

Envs(injections) == [i \in 1..Len(injections) |-> injections[i].env]

\* the fan-out of one host call as it starts: the array registeredWebViews,
\* the scripts injected so far, the unregister closures, and whether an
\* injectJavaScript has thrown
StartFan ==
  [views |-> registeredWebViews, sent |-> NoneSent, handles |-> handles, threw |-> FALSE]

\* stateMap.forEach((state, key) => STATE_UPDATE), for the map states
CatchUpOf(states) ==
  LET ks == SelectSeq(KeysSeq, LAMBDA k : k \in DOMAIN states)
  IN [i \in 1..Len(ks) |-> StateUpdate(ks[i], states[ks[i]])]

RECURSIVE Inject(_, _, _, _, _)
RECURSIVE InjectEach(_, _, _, _, _, _)
RECURSIVE Attach(_, _, _, _, _)

\* webView.injectJavaScript(js) on endpoint v, stateMap being states and
\* previousStates being prev: it throws, or the script is handed over; the
\* Hook then registers the page's WebView unless the array holds it
Inject(fan, v, env, states, prev) ==
  IF v \in throwing
    THEN [fan EXCEPT !.threw = TRUE]
    ELSE LET got == [fan EXCEPT !.sent[v] = Append(@, Injection(env, prev))]
         IN IF v = Hook /\ IndexOf(got.views, PageView) = 0
              THEN Attach(got, PageView, CatchUpOf(states), states, prev)
              ELSE got

\* the scripts envs injected into v one after the other, until one throws
InjectEach(fan, v, envs, i, states, prev) ==
  IF i > Len(envs) \/ fan.threw
    THEN fan
    ELSE InjectEach(Inject(fan, v, envs[i], states, prev), v, envs, i + 1, states, prev)

\* registerWebView(v): push, the catch-up scripts envs, and the unregister
\* closure if the call returns; if it throws the caller gets no closure and
\* is left with the ones of earlier registrations ("stale"), if any
Attach(fan, v, envs, states, prev) ==
  LET pushed == [fan EXCEPT !.views = Append(@, v)]
      done == InjectEach(pushed, v, envs, 1, states, prev)
  IN IF done.threw
       THEN [done EXCEPT !.handles[v] = IF @ = "none" THEN "none" ELSE "stale"]
       ELSE [done EXCEPT !.handles[v] = "live"]

RECURSIVE SendLoop(_, _, _, _, _)
\* for (const webView of registeredWebViews) webView.injectJavaScript(js):
\* the loop reads the array as it is when it reaches index i, and ends at the
\* first injectJavaScript that throws
SendLoop(fan, i, env, states, prev) ==
  IF i > Len(fan.views) \/ fan.threw
    THEN fan
    ELSE SendLoop(Inject(fan, fan.views[i], env, states, prev), i + 1, env, states, prev)

\* the scripts that fan has injected into the page's WebView beyond those of
\* start
Queued(fan, start) ==
  Envs(SubSeq(fan.sent[PageView], Len(start.sent[PageView]) + 1, Len(fan.sent[PageView])))

\* an update that is remembered but not sent
UpdateWebViewsUnsent(k, state, states, prev, queue, start) ==
  [prev |-> MapSet(prev, k, state), queue |-> queue, fan |-> start]

\* updateWebViews(key, state), stateMap being states, previousStates prev,
\* the page's queue queue and the fan-out of the host call so far start:
\* [previousStates', toWeb', the fan-out]
UpdateWebViews(k, state, states, prev, queue, start) ==
  LET stored == MapSet(prev, k, state)
      fan == SendLoop(start, 1, StateUpdate(k, state), states, stored)
  IN [prev |-> stored, queue |-> queue \o Queued(fan, start), fan |-> fan]

\* a host that never falls back to the full state
SendsFullStateNever(patches, newState) == FALSE

\* a host that sends the full state only when the patch is strictly longer
SendsFullStateIfLonger(patches, newState) ==
  PatchJsonLen(patches) > DocJsonLen(newState)

\* if (patchJson.length >= stateJson.length)
SendsFullState(patches, newState) == PatchJsonLen(patches) >= DocJsonLen(newState)

\* updateWebViewsWithPatch(key, newState), likewise: [previousStates',
\* toWeb', the fan-out]
UpdateWebViewsWithPatch(k, newState, states, prev, queue, start) ==
  LET prevState == IF k \in DOMAIN prev THEN prev[k] ELSE EmptyDoc
      patches == Compare(prevState, newState)
      stored == MapSet(prev, k, newState)
      fan == SendLoop(start, 1, StatePatch(k, patches), states, stored)
  IN IF Len(patches) = 0
       THEN [prev |-> prev, queue |-> queue, fan |-> start]
       ELSE IF SendsFullState(patches, newState)
              THEN UpdateWebViews(k, newState, states, stored, queue, start)
              ELSE [prev |-> stored, queue |-> queue \o Queued(fan, start), fan |-> fan]

\* the scripts one broadcast can add to the queue of the page's WebView
Growth ==
  IF IndexOf(registeredWebViews, PageView) # 0 THEN 1
  ELSE IF IndexOf(registeredWebViews, Hook) # 0 THEN 1 + Cardinality(Keys)
  ELSE 0

Room == Len(toWeb) + Growth <= MaxQueue

\* a registration that sends nothing
CatchUpNone == <<>>

\* stateMap.forEach((state, key) => webView.injectJavaScript(STATE_UPDATE))
CatchUp == CatchUpOf(stateMap)

\* bridge.registerWebView(v)
RegisterWebView(v) ==
  /\ IndexOf(registeredWebViews, v) = 0
  /\ Len(toWeb) + Cardinality(DOMAIN stateMap) <= MaxQueue
  /\ \E fan \in {Attach(StartFan, v, CatchUp, stateMap, previousStates)} :
        /\ registeredWebViews' = fan.views
        /\ handles' = fan.handles
        /\ sentTo' = fan.sent
        /\ toWeb' = toWeb \o Envs(fan.sent[PageView])
  /\ calls' = <<>>
  /\ lastDispatch' = NoDispatch
  /\ nativeCalls' = <<>>
  /\ lastNativeDispatch' = NoDispatch
  /\ UNCHANGED <<nativeReturned, utilVars, mockVars>>
  /\ UNCHANGED <<stateMap, reducers, stores, previousStates, nativeListeners, nativeUnsubs,
                 throwing, toNative, injected, clientVars, missed, returned, created,
                 initPosted, gotState, hostHistory>>

\* an unregister that leaves the array alone
DetachedNever(views, v) == views

\* const index = registeredWebViews.indexOf(webView); splice(index, 1)
Detached(views, v) == Unsubscribed(views, v)

\* the unregister closure of endpoint v
Unregister(v) ==
  /\ handles[v] # "none"
  /\ registeredWebViews' = Detached(registeredWebViews, v)
  /\ handles' = [handles EXCEPT ![v] = "called"]
  /\ calls' = <<>>
  /\ lastDispatch' = NoDispatch
  /\ nativeCalls' = <<>>
  /\ lastNativeDispatch' = NoDispatch
  /\ UNCHANGED <<nativeReturned, utilVars, mockVars>>
  /\ sentTo' = NoneSent
  /\ UNCHANGED <<stateMap, reducers, stores, previousStates, nativeListeners, nativeUnsubs,
                 throwing, wireVars, clientVars, missed, returned, created, initPosted,
                 gotState, hostHistory>>

\* endpoint v starts or stops throwing from injectJavaScript
EndpointChange(v) ==
  /\ throwing' = IF v \in throwing THEN throwing \ {v} ELSE throwing \cup {v}
  /\ calls' = <<>>
  /\ lastDispatch' = NoDispatch
  /\ nativeCalls' = <<>>
  /\ lastNativeDispatch' = NoDispatch
  /\ UNCHANGED <<nativeReturned, utilVars, mockVars>>
  /\ sentTo' = NoneSent
  /\ UNCHANGED <<stateMap, reducers, stores, previousStates, registeredWebViews,
                 nativeListeners, nativeUnsubs, handles, wireVars, clientVars, missed,
                 returned, created, initPosted, gotState, hostHistory>>

(***************************************************************************)
(* Host: the store registry.                                               *)
(***************************************************************************)
\* a registry that never finds the key
HasStoreNever(k) == FALSE

\* stores.has(key)
HasStore(k) == k \in DOMAIN stores

\* the identity of the next host store object
NextNativeIdentity == 1 + Cardinality(DOMAIN stores)

\* bridge.getStore(key): the existing store, or a new one whose closure gets
\* its own listeners array; the promise resolves to it
NativeGetStore(k) ==
  /\ IF HasStore(k)
       THEN UNCHANGED <<stores, nativeListeners, nativeUnsubs>>
       ELSE /\ stores' = MapSet(stores, k, NextNativeIdentity)
            /\ nativeListeners' = MapSet(nativeListeners, k, <<>>)
            /\ nativeUnsubs' = MapSet(nativeUnsubs, k, <<>>)
  /\ nativeReturned' = [nativeReturned EXCEPT ![k] = @ \cup {stores'[k]}]
  /\ UNCHANGED <<utilVars, mockVars>>
  /\ calls' = <<>>
  /\ lastDispatch' = NoDispatch
  /\ nativeCalls' = <<>>
  /\ lastNativeDispatch' = NoDispatch
  /\ sentTo' = NoneSent
  /\ UNCHANGED <<stateMap, reducers, previousStates, registeredWebViews, handles, throwing,
                 wireVars, clientVars, missed, returned, created, initPosted, gotState,
                 hostHistory>>

\* getState: () => stateMap.get(key) || {}, of the host store for k
NativeGetState(k) == HostState(k)

\* one invocation of a host listener: its argument, what store.getState()
\* returns while it runs, and how many scripts of this call were injected
\* before it
NativeCall(k, l, state, snapshot, sent) ==
  [key |-> k, listener |-> l, state |-> state, snapshot |-> snapshot, sent |-> sent]

\* store.subscribe(listener) of the host store for k
NativeSubscribe(k, l) ==
  /\ k \in DOMAIN stores
  /\ Len(nativeUnsubs[k]) < MaxListeners
  /\ ~Reacts(l, HostState(k))
  /\ l \in Plain \/ \A i \in 1..Len(nativeUnsubs[k]) : nativeUnsubs[k][i].listener # l
  /\ nativeListeners' = [nativeListeners EXCEPT ![k] = Append(@, l)]
  /\ nativeUnsubs' = [nativeUnsubs EXCEPT ![k] = Append(@, Subscription(l))]
  /\ nativeCalls' = <<NativeCall(k, l, HostState(k), HostState(k), 0)>>
  /\ calls' = <<>>
  /\ lastDispatch' = NoDispatch
  /\ lastNativeDispatch' = NoDispatch
  /\ UNCHANGED <<nativeReturned, utilVars, mockVars>>
  /\ sentTo' = NoneSent
  /\ UNCHANGED <<stateMap, reducers, stores, previousStates, registeredWebViews, handles,
                 throwing, wireVars, clientVars, missed, returned, created, initPosted,
                 gotState, hostHistory>>

\* the unsubscribe closure that the i-th subscribe call on the host store for
\* k returned
NativeUnsubscribe(k, i) ==
  /\ k \in DOMAIN stores
  /\ i \in 1..Len(nativeUnsubs[k])
  /\ nativeListeners' =
       [nativeListeners EXCEPT ![k] = Unsubscribed(@, nativeUnsubs[k][i].listener)]
  /\ nativeUnsubs' = [nativeUnsubs EXCEPT ![k][i].used = TRUE]
  /\ calls' = <<>>
  /\ lastDispatch' = NoDispatch
  /\ nativeCalls' = <<>>
  /\ lastNativeDispatch' = NoDispatch
  /\ UNCHANGED <<nativeReturned, utilVars, mockVars>>
  /\ sentTo' = NoneSent
  /\ UNCHANGED <<stateMap, reducers, stores, previousStates, registeredWebViews, handles,
                 throwing, wireVars, clientVars, missed, returned, created, initPosted,
                 gotState, hostHistory>>

\* a dispatch that takes every key to have a reducer
HasReducerAlways(k) == TRUE

\* const reducer = reducers.get(key); if (reducer)
HasReducer(k) == k \in reducers

\* The host while one call of store.dispatch for a key runs: stateMap,
\* previousStates, the page's queue, the fan-out, the store's listeners
\* array, the listener invocations made and the states stateMap was set to.
StartHost(k) ==
  [states |-> stateMap, prev |-> previousStates, queue |-> toWeb, fan |-> StartFan,
   list |-> nativeListeners[k], calls |-> <<>>, history |-> {}]

StateIn(states, k) == IF k \in DOMAIN states THEN states[k] ELSE EmptyDoc

\* the scripts the call has injected so far
InjectedBy(fan) == SumSeq([i \in 1..Len(fan.views) |-> Len(fan.sent[fan.views[i]])])

\* a loop that invokes nobody
HostNotifyNobody(host, k, i, newState) == host

RECURSIVE HostNotify(_, _, _, _)
RECURSIVE HostDispatch(_, _, _)

\* for (const listener of listeners) listener(newState), from index i: the
\* iterator reads the live array; a listener may splice itself out, or call
\* store.dispatch, which runs to its end before the loop goes on; a throw
\* ends the loop
HostNotify(host, k, i, newState) ==
  IF i > Len(host.list) \/ host.fan.threw
    THEN host
    ELSE LET l == host.list[i]
             called == [host EXCEPT !.calls =
                          Append(@, NativeCall(k, l, newState, StateIn(host.states, k),
                                               InjectedBy(host.fan)))]
         IN HostNotify(IF l \in Leaving
                         THEN [called EXCEPT !.list = Unsubscribed(@, l)]
                       ELSE IF Reacts(l, newState)
                         THEN HostDispatch(called, k, Reaction)
                         ELSE called,
                       k, i + 1, newState)

\* the body of store.dispatch(event) under if (reducer): reducer,
\* stateMap.set, the listeners loop, then updateWebViewsWithPatch
HostDispatch(host, k, event) ==
  LET newState == Reducer(StateIn(host.states, k), event)
      set == [host EXCEPT !.states = MapSet(@, k, newState),
                          !.history = @ \cup {newState}]
      told == HostNotify(set, k, 1, newState)
      sent == UpdateWebViewsWithPatch(k, newState, told.states, told.prev, told.queue,
                                      told.fan)
  IN IF told.fan.threw
       THEN told
       ELSE [told EXCEPT !.prev = sent.prev, !.queue = sent.queue, !.fan = sent.fan]

\* store.dispatch(event) of the host store for k
NativeDispatch(k, event) ==
  /\ k \in DOMAIN stores
  /\ HasReducer(k) => (Reducible(HostState(k), event) /\ Room)
  /\ IF HasReducer(k)
       THEN \E host \in {HostDispatch(StartHost(k), k, event)} :
               /\ stateMap' = host.states
               /\ nativeCalls' = host.calls
               /\ nativeListeners' = [nativeListeners EXCEPT ![k] = host.list]
               /\ nativeUnsubs' =
                    [nativeUnsubs EXCEPT ![k] =
                       SelfUnsubscribed(@, [i \in 1..Len(host.calls) |->
                                              host.calls[i].listener])]
               /\ previousStates' = host.prev
               /\ toWeb' = host.queue
               /\ registeredWebViews' = host.fan.views
               /\ handles' = host.fan.handles
               /\ sentTo' = host.fan.sent
               /\ hostHistory' = [hostHistory EXCEPT ![k] = @ \cup host.history]
       ELSE /\ nativeCalls' = <<>>
            /\ sentTo' = NoneSent
            /\ UNCHANGED <<stateMap, nativeListeners, nativeUnsubs, previousStates, toWeb,
                           registeredWebViews, handles, hostHistory>>
  /\ calls' = <<>>
  /\ lastDispatch' = NoDispatch
  /\ lastNativeDispatch' = [key |-> k, event |-> event]
  /\ UNCHANGED <<nativeReturned, utilVars, mockVars>>
  /\ UNCHANGED <<reducers, stores, throwing, toNative, injected, clientVars, missed,
                 returned, created, initPosted, gotState>>

\* bridge.produce(key, producer): produceUtil, stateMap.set, a loop over
\* store._listeners (a property the host store does not have, so over []),
\* then updateWebViewsWithPatch
NativeProduce(k, r) ==
  /\ Applicable(r, HostState(k))
  /\ Room
  /\ \E newState \in {Produce(HostState(k), r)} :
     \E sent \in {UpdateWebViewsWithPatch(k, newState, MapSet(stateMap, k, newState),
                                           previousStates, toWeb, StartFan)} :
        /\ stateMap' = MapSet(stateMap, k, newState)
        /\ previousStates' = sent.prev
        /\ toWeb' = sent.queue
        /\ registeredWebViews' = sent.fan.views
        /\ handles' = sent.fan.handles
        /\ sentTo' = sent.fan.sent
        /\ hostHistory' = [hostHistory EXCEPT ![k] = @ \cup {newState}]
  /\ calls' = <<>>
  /\ lastDispatch' = NoDispatch
  /\ nativeCalls' = <<>>
  /\ lastNativeDispatch' = NoDispatch
  /\ UNCHANGED <<nativeReturned, utilVars, mockVars>>
  /\ UNCHANGED <<reducers, stores, nativeListeners, nativeUnsubs, throwing, toNative,
                 injected, clientVars, missed, returned, created, initPosted, gotState>>

\* A message posted by the WebView reaches the host.  The bridge object has
\* no method that takes it: nothing of the bridge changes.
NativeOnMessage ==
  /\ toNative # <<>>
  /\ toNative' = Tail(toNative)
  /\ calls' = <<>>
  /\ lastDispatch' = NoDispatch
  /\ nativeCalls' = <<>>
  /\ lastNativeDispatch' = NoDispatch
  /\ UNCHANGED <<nativeReturned, utilVars, mockVars>>
  /\ sentTo' = NoneSent
  /\ UNCHANGED <<hostVars, toWeb, injected, clientVars, missed, returned, created, initPosted,
                 gotState, hostHistory>>

(***************************************************************************)
(* Client: createBridge().getStore, and the store createStore returns.     *)
(***************************************************************************)
Call(k, l, state) == [key |-> k, listener |-> l, state |-> state]

\* notifyListeners() on the array list: [list, calls], the array afterwards
\* and the invocations made, each with the given currentState
Notify(k, list, state) ==
  LET loop == NotifyLoop(list, 1, <<>>)
  IN [list |-> loop.list,
      calls |-> [i \in 1..Len(loop.called) |-> Call(k, loop.called[i], state)]]

\* window.ReactNativeWebView.postMessage, behind its guard
PostToNative(queue, env) == IF hasRNWebView THEN Append(queue, env) ELSE queue

\* a store that posts whatever the environment is
CommunicatesAlways == TRUE

\* whether createStore sets up communication (isSupported && key &&
\* window.ReactNativeWebView)
Communicates == supported /\ hasRNWebView

\* a bridge that probes the environment at each call
IsSupportedNow == hasRNWebView

\* isSupported: () => supported, of the client bridge
IsSupported == supported

\* isSupported: () => true, of the native bridge
NativeIsSupported == TRUE

\* a bridge that never finds a cached promise
HasPromiseNever(k) == FALSE

\* storePromises.has(key)
HasPromise(k) == k \in DOMAIN storePromises

\* the identity of the next store / promise object
NextIdentity == 1 + SumSeq([i \in 1..Len(MirrorKeysSeq) |-> created[MirrorKeysSeq[i]]])

\* bridge.getStore(key); resolve(store) runs inside the promise's executor,
\* so the promise kept in storePromises is resolved from the start
ClientGetStore(k) ==
  /\ getStoreCalls < MaxGetStore
  /\ Len(toNative) < MaxPosted
  /\ getStoreCalls' = getStoreCalls + 1
  /\ IF ~HasPromise(k)
       THEN /\ created' = [created EXCEPT ![k] = @ + 1]
            /\ currentState' = MapSet(currentState, k, EmptyDoc)
            /\ listeners' = MapSet(listeners, k, <<>>)
            /\ unsubs' = MapSet(unsubs, k, <<>>)
            /\ toNative' = IF Communicates THEN Append(toNative, InitStore(k)) ELSE toNative
            /\ initPosted' =
                 [initPosted EXCEPT ![k] = IF Communicates THEN @ + 1 ELSE @]
            /\ handling' = IF Communicates THEN handling \cup {k} ELSE handling
            /\ storeInstances' = MapSet(storeInstances, k, NextIdentity)
            /\ storePromises' = MapSet(storePromises, k, NextIdentity)
       ELSE UNCHANGED <<created, currentState, listeners, unsubs, toNative, initPosted,
                        handling, storeInstances, storePromises>>
  /\ returned' = [returned EXCEPT ![k] = @ \cup {storePromises'[k]}]
  /\ calls' = <<>>
  /\ lastDispatch' = NoDispatch
  /\ nativeCalls' = <<>>
  /\ lastNativeDispatch' = NoDispatch
  /\ UNCHANGED <<nativeReturned, utilVars, mockVars>>
  /\ sentTo' = NoneSent
  /\ UNCHANGED <<hostVars, toWeb, injected, hasRNWebView, supported, gotState, missed,
                 hostHistory>>

\* store.subscribe(listener)
ClientSubscribe(k, l) ==
  /\ k \in DOMAIN storeInstances
  /\ Len(unsubs[k]) < MaxListeners
  /\ l \in Plain \/ \A i \in 1..Len(unsubs[k]) : unsubs[k][i].listener # l
  /\ listeners' = [listeners EXCEPT ![k] = Append(@, l)]
  /\ unsubs' = [unsubs EXCEPT ![k] = Append(@, Subscription(l))]
  /\ calls' = <<Call(k, l, currentState[k])>>
  /\ lastDispatch' = NoDispatch
  /\ nativeCalls' = <<>>
  /\ lastNativeDispatch' = NoDispatch
  /\ UNCHANGED <<nativeReturned, utilVars, mockVars>>
  /\ sentTo' = NoneSent
  /\ UNCHANGED <<hostVars, wireVars, hasRNWebView, supported, storePromises,
                 storeInstances, currentState, handling, getStoreCalls, missed, returned, created,
                 initPosted, gotState, hostHistory>>

\* the unsubscribe closure that the i-th subscribe call on the mirror store
\* for k returned
ClientUnsubscribe(k, i) ==
  /\ k \in DOMAIN storeInstances
  /\ i \in 1..Len(unsubs[k])
  /\ listeners' = [listeners EXCEPT ![k] = Unsubscribed(@, unsubs[k][i].listener)]
  /\ unsubs' = [unsubs EXCEPT ![k][i].used = TRUE]
  /\ calls' = <<>>
  /\ lastDispatch' = NoDispatch
  /\ nativeCalls' = <<>>
  /\ lastNativeDispatch' = NoDispatch
  /\ UNCHANGED <<nativeReturned, utilVars, mockVars>>
  /\ sentTo' = NoneSent
  /\ UNCHANGED <<hostVars, wireVars, hasRNWebView, supported, storePromises,
                 storeInstances, currentState, handling, getStoreCalls, missed, returned, created,
                 initPosted, gotState, hostHistory>>

\* store.dispatch(event)
ClientDispatch(k, event) ==
  /\ k \in DOMAIN storeInstances
  /\ Len(toNative) < MaxPosted
  /\ toNative' = IF Communicates
                   THEN Append(toNative, EventEnvelope(k, event))
                   ELSE toNative
  /\ calls' = <<>>
  /\ lastDispatch' = [key |-> k, event |-> event]
  /\ nativeCalls' = <<>>
  /\ lastNativeDispatch' = NoDispatch
  /\ UNCHANGED <<nativeReturned, utilVars, mockVars>>
  /\ sentTo' = NoneSent
  /\ UNCHANGED <<hostVars, toWeb, injected, clientVars, missed, returned, created, initPosted,
                 gotState, hostHistory>>

(***************************************************************************)
(* One message event in the WebView.  Its listeners run in the order they  *)
(* were added: the bridge's listener (added by createBridge when           *)
(* supported), then the messageHandler of each store.  Both act on the     *)
(* same currentState object; applyPatch mutates it in place.               *)
(***************************************************************************)
\* The bridge's listener on message m, the store holding state and the
\* listeners array list: [state, list, calls, posts, threw] after it ran.
BridgeListener(m, state, list) ==
  LET idle == [state |-> state, list |-> list, calls |-> <<>>, posts |-> <<>>,
               threw |-> FALSE]
  IN IF ~Parses(m)
       THEN idle
     ELSE IF ~(supported /\ m.key \in DOMAIN storeInstances)
       THEN idle
     ELSE IF m.type = "STATE_UPDATE"
       \* store._state = payload; store._notifyListeners() reads currentState
       THEN LET n == Notify(m.key, list, state)
            IN [idle EXCEPT !.list = n.list, !.calls = n.calls]
     ELSE IF m.type = "STATE_PATCH"
       THEN LET r == ApplyPatch(state, m.patches)
                n == Notify(m.key, list, r.doc)
            IN IF r.ok
                 THEN [idle EXCEPT !.state = r.doc, !.list = n.list, !.calls = n.calls]
                 ELSE [idle EXCEPT !.state = r.doc,
                                   !.posts = PostToNative(<<>>, RequestFullState(m.key)),
                                   !.threw = TRUE]
     ELSE idle

\* a messageHandler that does not compare the key
AddressedAlways(k, m) == TRUE

\* message && message.key === key, in the messageHandler of the store for k
Addressed(k, m) == m.key = k

\* The messageHandler of the store for k on message m, likewise.
MessageHandler(k, m, state, list) ==
  LET idle == [state |-> state, list |-> list, calls |-> <<>>, posts |-> <<>>,
               threw |-> FALSE]
  IN IF ~Parses(m)
       THEN idle
     ELSE IF k \notin handling
       THEN idle
     ELSE IF ~Addressed(k, m)
       THEN idle
     ELSE IF m.type = "STATE_UPDATE"
       THEN LET n == Notify(k, list, m.payload)
            IN [idle EXCEPT !.state = m.payload, !.list = n.list, !.calls = n.calls]
     ELSE IF m.type = "STATE_PATCH"
       THEN LET r == ApplyPatch(state, m.patches)
                n == Notify(k, list, r.doc)
            IN IF r.ok
                 THEN [idle EXCEPT !.state = r.doc, !.list = n.list, !.calls = n.calls]
                 ELSE [idle EXCEPT !.state = r.doc,
                                   !.posts = PostToNative(<<>>, RequestFullState(k)),
                                   !.threw = TRUE]
     ELSE idle

\* the keys of the mirror stores, in the order of MirrorKeysSeq
Stores == SelectSeq(MirrorKeysSeq, LAMBDA k : k \in DOMAIN storeInstances)

\* what the messageHandlers h of the stores ks left in field, one after
\* the other
RECURSIVE Handled(_, _, _)
Handled(h, ks, field) ==
  IF ks = <<>> THEN <<>> ELSE h[Head(ks)][field] \o Handled(h, Tail(ks), field)

WebViewOnMessage ==
  /\ toWeb # <<>>
  /\ Len(toNative) < MaxPosted
  /\ LET m == Head(toWeb)
         has == m.key \in DOMAIN storeInstances
         before == IF has THEN currentState[m.key] ELSE EmptyDoc
         list == IF has THEN listeners[m.key] ELSE <<>>
     IN \E b \in {BridgeListener(m, before, list)} :
        \E h \in {[k \in DOMAIN storeInstances |->
                     IF k = m.key
                       THEN MessageHandler(k, m, b.state, b.list)
                       ELSE MessageHandler(k, m, currentState[k], listeners[k])]} :
        /\ toWeb' = Tail(toWeb)
        /\ currentState' = [k \in DOMAIN currentState |-> h[k].state]
        /\ listeners' = [k \in DOMAIN listeners |-> h[k].list]
        /\ calls' = b.calls \o Handled(h, Stores, "calls")
        /\ unsubs' = [k \in DOMAIN unsubs |->
                        SelfUnsubscribed(unsubs[k],
                          LET told == SelectSeq(calls', LAMBDA c : c.key = k)
                          IN [i \in 1..Len(told) |-> told[i].listener])]
        /\ lastDispatch' = NoDispatch
        /\ nativeCalls' = <<>>
        /\ lastNativeDispatch' = NoDispatch
        /\ UNCHANGED <<nativeReturned, utilVars, mockVars>>
        /\ sentTo' = NoneSent
        /\ missed' = IF Parses(m) /\ m.type \in {"STATE_UPDATE", "STATE_PATCH"}
                          /\ m.key \notin handling
                       THEN missed \cup {m.key} ELSE missed
        /\ toNative' = toNative \o b.posts \o Handled(h, Stores, "posts")
        /\ gotState' = IF Parses(m) /\ m.type \in {"STATE_UPDATE", "STATE_PATCH"}
                         THEN gotState \cup {m.key} ELSE gotState
  /\ UNCHANGED <<hostVars, injected, hasRNWebView, supported, storePromises,
                 storeInstances, handling, getStoreCalls, returned, created,
                 initPosted, hostHistory>>

\* A STATE_PATCH envelope that is not the host's reaches the message event.
DeliverForeignPatch(k, patches) ==
  /\ injected < MaxInjected
  /\ Len(toWeb) < MaxQueue
  /\ injected' = injected + 1
  /\ toWeb' = Append(toWeb, StatePatch(k, patches))
  /\ calls' = <<>>
  /\ lastDispatch' = NoDispatch
  /\ nativeCalls' = <<>>
  /\ lastNativeDispatch' = NoDispatch
  /\ UNCHANGED <<nativeReturned, utilVars, mockVars>>
  /\ sentTo' = NoneSent
  /\ UNCHANGED <<hostVars, toNative, clientVars, missed, returned, created, initPosted, gotState,
                 hostHistory>>

\* A STATE_UPDATE or STATE_PATCH envelope reaches the message event of a
\* page that holds mirror stores for several keys.
Deliver(env) ==
  /\ injected < MaxDelivered
  /\ Len(toWeb) < MaxQueue
  /\ injected' = injected + 1
  /\ toWeb' = Append(toWeb, env)
  /\ calls' = <<>>
  /\ lastDispatch' = NoDispatch
  /\ nativeCalls' = <<>>
  /\ lastNativeDispatch' = NoDispatch
  /\ UNCHANGED <<nativeReturned, utilVars, mockVars>>
  /\ sentTo' = NoneSent
  /\ UNCHANGED <<hostVars, toNative, clientVars, missed, returned, created, initPosted, gotState,
                 hostHistory>>

\* A message whose data is not valid JSON reaches the message event.
DeliverMalformed(k) ==
  /\ injected < MaxInjected
  /\ Len(toWeb) < MaxQueue
  /\ injected' = injected + 1
  /\ toWeb' = Append(toWeb, Malformed(k))
  /\ calls' = <<>>
  /\ lastDispatch' = NoDispatch
  /\ nativeCalls' = <<>>
  /\ lastNativeDispatch' = NoDispatch
  /\ UNCHANGED <<nativeReturned, utilVars, mockVars>>
  /\ sentTo' = NoneSent
  /\ UNCHANGED <<hostVars, toNative, clientVars, missed, returned, created, initPosted, gotState,
                 hostHistory>>

\* The page's environment changes: window.ReactNativeWebView appears or goes.
EnvChange ==
  /\ hasRNWebView' = ~hasRNWebView
  /\ calls' = <<>>
  /\ lastDispatch' = NoDispatch
  /\ nativeCalls' = <<>>
  /\ lastNativeDispatch' = NoDispatch
  /\ UNCHANGED <<nativeReturned, utilVars, mockVars>>
  /\ sentTo' = NoneSent
  /\ UNCHANGED <<hostVars, wireVars, supported, storePromises, storeInstances,
                 currentState, listeners, unsubs, handling, getStoreCalls, missed, returned,
                 created, initPosted, gotState, hostHistory>>

(***************************************************************************)
(* Specifications.                                                         *)
(*   Spec       the synchronisation protocol: the host mutates and         *)
(*              broadcasts, the WebView receives                           *)
(*   ClientSpec the client bridge's API in a changing page environment,    *)
(*              the host only attaching the WebView                        *)
(*   FairSpec   both directions of the transport, with every posted        *)
(*              message and every injected script eventually handled (the  *)
(*              event loops of the two sides run their handlers)           *)
(*   HostSpec   the host bridge's API with subscribers on the host's       *)
(*              stores, the WebView running what is injected               *)
(*   SubscriberSpec  subscribers coming and going on the stores of both    *)
(*              sides while the host's state changes                       *)
(*   FanOutSpec the host broadcasting to two endpoints that attach,        *)
(*              detach, and fail                                           *)
(*   ReentrySpec  the host broadcasting to an endpoint that attaches the   *)
(*              page's WebView from inside a send                          *)
(*   IsolationSpec  a page with mirror stores for two keys                 *)
(*   MockSpec   the mock bridges of the testing utilities, and React       *)
(*              components over their stores                               *)
(*   PolicySpec the host choosing between patch and snapshot, from states  *)
(*              shorter than, as long as, and longer than a patch          *)
(***************************************************************************)
Next ==
  \/ \E v \in Views : RegisterWebView(v)
  \/ \E k \in Keys : NativeGetStore(k)
  \/ \E k \in Keys, e \in Events : NativeDispatch(k, e)
  \/ \E k \in Keys, r \in Recipes : NativeProduce(k, r)
  \/ NativeOnMessage
  \/ \E k \in Keys : ClientGetStore(k)
  \/ \E k \in Keys, l \in Plain : ClientSubscribe(k, l)
  \/ WebViewOnMessage
  \/ \E k \in Keys, p \in ForeignPatches : DeliverForeignPatch(k, p)

Spec == Init /\ [][Next]_vars

ClientNext ==
  \/ \E v \in Views : RegisterWebView(v)
  \/ NativeOnMessage
  \/ \E k \in Keys : ClientGetStore(k)
  \/ \E k \in Keys, l \in Listeners : ClientSubscribe(k, l)
  \/ \E k \in Keys, e \in Events : ClientDispatch(k, e)
  \/ WebViewOnMessage
  \/ \E k \in Keys : DeliverMalformed(k)
  \/ EnvChange

ClientSpec == Init /\ [][ClientNext]_vars

FairInit ==
  /\ Init
  /\ supported
  /\ reducers = Keys
  /\ \A k \in Keys : HostState(k) = BigState

FairNext ==
  \/ \E v \in Views : RegisterWebView(v)
  \/ \E k \in Keys : NativeGetStore(k)
  \/ \E k \in Keys, e \in Events : NativeDispatch(k, e)
  \/ NativeOnMessage
  \/ \E k \in Keys : ClientGetStore(k)
  \/ \E k \in Keys, e \in Events : ClientDispatch(k, e)
  \/ WebViewOnMessage
  \/ \E k \in Keys, p \in ForeignPatches : DeliverForeignPatch(k, p)

FairSpec ==
  /\ FairInit
  /\ [][FairNext]_vars
  /\ WF_vars(NativeOnMessage)
  /\ WF_vars(WebViewOnMessage)

HostNext ==
  \/ \E v \in Views : RegisterWebView(v)
  \/ \E k \in Keys : NativeGetStore(k)
  \/ \E k \in Keys, l \in Listeners : NativeSubscribe(k, l)
  \/ \E k \in Keys, i \in 1..MaxListeners : NativeUnsubscribe(k, i)
  \/ \E k \in Keys, e \in NativeEvents : NativeDispatch(k, e)
  \/ \E k \in Keys, r \in Recipes : NativeProduce(k, r)
  \/ WebViewOnMessage

HostSpec == Init /\ [][HostNext]_vars

\* a supported page, and a host configured with the counter state and a
\* reducer
SubscriberInit ==
  /\ Init
  /\ supported
  /\ reducers = Keys
  /\ \A k \in Keys : HostState(k) = SmallState

SubscriberNext ==
  \/ \E v \in Views : RegisterWebView(v)
  \/ \E k \in Keys : NativeGetStore(k)
  \/ \E k \in Keys, l \in Listeners : NativeSubscribe(k, l)
  \/ \E k \in Keys, i \in 1..MaxListeners : NativeUnsubscribe(k, i)
  \/ \E k \in Keys, e \in Events : NativeDispatch(k, e)
  \/ NativeOnMessage
  \/ \E k \in Keys : ClientGetStore(k)
  \/ \E k \in Keys, l \in Listeners : ClientSubscribe(k, l)
  \/ \E k \in Keys, i \in 1..MaxListeners : ClientUnsubscribe(k, i)
  \/ WebViewOnMessage

SubscriberSpec == SubscriberInit /\ [][SubscriberNext]_vars

\* a host configured with a state and a reducer
FanOutInit ==
  /\ Init
  /\ supported
  /\ reducers = Keys
  /\ \A k \in Keys : HostState(k) = BigState

FanOutNext ==
  \/ \E v \in Endpoints \ {Hook} : RegisterWebView(v)
  \/ \E v \in Endpoints \ {Hook} : Unregister(v)
  \/ \E v \in Faulty : EndpointChange(v)
  \/ \E k \in Keys : NativeGetStore(k)
  \/ \E k \in Keys, v \in ItemValues : NativeDispatch(k, Event("ADD_ITEM", v))
  \/ \E k \in Keys : NativeProduce(k, "pop")
  \/ WebViewOnMessage

FanOutSpec == FanOutInit /\ [][FanOutNext]_vars

ReentryNext ==
  \/ \E v \in {PageView, Hook} : RegisterWebView(v)
  \/ \E v \in {PageView, Hook} : Unregister(v)
  \/ \E k \in Keys : NativeGetStore(k)
  \/ \E k \in Keys, e \in Events : NativeDispatch(k, e)
  \/ \E k \in Keys, r \in Recipes : NativeProduce(k, r)
  \/ WebViewOnMessage

ReentrySpec == FanOutInit /\ [][ReentryNext]_vars

\* a host configured with one of three states and a reducer, the page
\* supported
PolicyInit ==
  \E state \in InitialStates \cup {EdgeState} :
    Created([k \in Keys |-> Configured(state)], TRUE)

PolicyNext ==
  \/ \E v \in Views : RegisterWebView(v)
  \/ \E k \in Keys : NativeGetStore(k)
  \/ \E k \in Keys, e \in PolicyEvents : NativeDispatch(k, e)
  \/ \E k \in Keys, r \in Recipes : NativeProduce(k, r)
  \/ WebViewOnMessage

PolicySpec == PolicyInit /\ [][PolicyNext]_vars

\* a host configured with a state and a reducer whose state is changed by
\* dispatch and by recipes that write and that delete properties
ChangeInit ==
  \E state \in InitialStates : Created([k \in Keys |-> Configured(state)], TRUE)

ChangeNext ==
  \/ \E v \in Views : RegisterWebView(v)
  \/ \E k \in Keys : NativeGetStore(k)
  \/ \E k \in Keys, e \in Events : NativeDispatch(k, e)
  \/ \E k \in Keys, r \in DeletingRecipes : NativeProduce(k, r)
  \/ WebViewOnMessage

ChangeSpec == ChangeInit /\ [][ChangeNext]_vars

\* every key configured with a reducer, with or without an initial state
ReducerInit ==
  \E config \in [Keys -> {c \in StoreConfigs : c.present /\ c.hasReducer}] :
    Created(config, TRUE)

ReducerNext ==
  \/ \E v \in Views : RegisterWebView(v)
  \/ \E k \in Keys : NativeGetStore(k)
  \/ \E k \in Keys, l \in Plain : NativeSubscribe(k, l)
  \/ \E k \in Keys, e \in RenameEvents : NativeDispatch(k, e)
  \/ WebViewOnMessage

ReducerSpec == ReducerInit /\ [][ReducerNext]_vars

\* a page in a WebView holding mirror stores for two keys, and the
\* envelopes that reach it
IsolationInit ==
  /\ \E config \in [Keys -> StoreConfigs] : Created(config, TRUE)
  /\ supported

Envelopes ==
  {StateUpdate(k, state) : k \in MirrorKeys, state \in InitialStates}
    \cup {StatePatch(k, p) : k \in MirrorKeys, p \in ForeignPatches}

IsolationNext ==
  \/ NativeOnMessage
  \/ \E k \in MirrorKeys : ClientGetStore(k)
  \/ \E k \in MirrorKeys, l \in Plain : ClientSubscribe(k, l)
  \/ \E env \in Envelopes : Deliver(env)
  \/ WebViewOnMessage

IsolationSpec == IsolationInit /\ [][IsolationNext]_vars

\* host stores with a subscriber that dispatches from inside its callback
ReactingNext ==
  \/ \E v \in Views : RegisterWebView(v)
  \/ \E k \in Keys : NativeGetStore(k)
  \/ \E k \in Keys, l \in ReactingListeners : NativeSubscribe(k, l)
  \/ \E k \in Keys, e \in Events : NativeDispatch(k, e)
  \/ \E k \in Keys, r \in Recipes : NativeProduce(k, r)
  \/ WebViewOnMessage

ReactingSpec == ChangeInit /\ [][ReactingNext]_vars

(***************************************************************************)
(* utils.produce alone: the states of its tests, the recipes of its tests, *)
(* and a caller that keeps what produce returned as its next state.        *)
(***************************************************************************)
Completed == UNION {[1..n -> BOOLEAN] : n \in 0..MaxTodos}

UtilsInit ==
  /\ \E config \in [Keys -> StoreConfigs] : CreatedBridges(config, FALSE)
  /\ \E count \in 0..1, theme \in {"light", "dark"}, completed \in Completed :
        /\ heap = InitialHeap(count, theme, completed)
        /\ initialState = Ref(Len(InitialHeap(count, theme, completed)))
  /\ producedState = NoRef
  /\ lastRecipe = ""
  /\ MockCreated(NoMockConfig)

\* newState = produce(initialState, recipe)
UtilsProduce(r) ==
  /\ Len(heap) + Cardinality(Reach(heap, initialState)) + 1 <= MaxCells
  /\ Mutable(r, heap, initialState)
  /\ \E draft \in {Clone(heap, initialState)} :
        /\ heap' = Mutate(r, draft.heap, draft.value)
        /\ producedState' = draft.value
  /\ lastRecipe' = r
  /\ UNCHANGED <<initialState, hostVars, wireVars, clientVars, obsVars, mockVars>>

\* stateMap.set(key, newState): the result is the next call's state.
KeepNewState ==
  /\ producedState # NoRef
  /\ producedState # initialState
  /\ initialState' = producedState
  /\ lastRecipe' = ""
  /\ UNCHANGED <<heap, producedState, hostVars, wireVars, clientVars, obsVars, mockVars>>

UtilsNext ==
  \/ \E r \in DraftRecipes : UtilsProduce(r)
  \/ KeepNewState

UtilsSpec == UtilsInit /\ [][UtilsNext]_vars

(***************************************************************************)
(* Testing utilities and React bindings: createMockBridge,                 *)
(* createMockNativeBridge, the stores they make, the readiness components  *)
(* and useSelector over a mock store.                                      *)
(***************************************************************************)
\* reducers a test hands to the mock bridge: the test reducer, and one that
\* also answers FORGET with the state without its name
MockReducers == {"test", "forgetting"}

MockEvents == Events \cup {Event("FORGET", 0)}

\* config.reducer(state, event)
Reduce(reducer, state, event) ==
  IF reducer = "forgetting" /\ event.type = "FORGET"
    THEN Del(state, "name")
    ELSE Reducer(state, event)

\* MockBridgeConfig: isSupported, and stores[key] absent or
\* {initialState, reducer?}
MockConfigs ==
  [supported : BOOLEAN, present : {FALSE}, initialState : {EmptyDoc}, reducer : {""}]
    \cup [supported : BOOLEAN, present : {TRUE}, initialState : InitialStates,
          reducer : MockReducers \cup {""}]

\* Object.assign(target, source), and the for-in loop of dispatch that
\* sets state[key] = newState[key]: the properties of source put on target
Assign(target, source) ==
  [f \in (DOMAIN target) \cup (DOMAIN source) |->
     IF f \in DOMAIN source THEN source[f] ELSE target[f]]

\* the store getStore makes for the key and keeps in storeCache:
\* createMockStoreWithReducer if the config has a reducer, else
\* createMockStore, on {} when the key has no config
MadeStore ==
  [made |-> TRUE,
   state |-> IF mockConfig.present THEN mockConfig.initialState ELSE EmptyDoc,
   listeners |-> <<>>,
   reducing |-> mockConfig.present /\ mockConfig.reducer # ""]

\* storeCache.get(key) after getStore(key)
Cached == IF mockStore.made THEN mockStore ELSE MadeStore

\* selector: state => state.count
Selector(state) == IF "count" \in DOMAIN state THEN state["count"] ELSE Undefined

\* store.getState(): the state object of the mock store is one object for
\* the store's whole life
Snapshot(store) == [identity |-> 1, state |-> store.state]

\* memoizedSelector(nextSnapshot): [hook, selection]
MemoizedSelector(h, nextSnapshot) ==
  IF ~h.hasMemo
    THEN [hook |-> [h EXCEPT !.hasMemo = TRUE,
                             !.memoizedSnapshot = nextSnapshot.identity,
                             !.memoizedSelection = Selector(nextSnapshot.state)],
          selection |-> Selector(nextSnapshot.state)]
  ELSE IF h.memoizedSnapshot = nextSnapshot.identity
    THEN [hook |-> h, selection |-> h.memoizedSelection]
  ELSE IF h.memoizedSelection = Selector(nextSnapshot.state)
    THEN [hook |-> [h EXCEPT !.memoizedSnapshot = nextSnapshot.identity],
          selection |-> h.memoizedSelection]
  ELSE [hook |-> [h EXCEPT !.memoizedSnapshot = nextSnapshot.identity,
                           !.memoizedSelection = Selector(nextSnapshot.state)],
        selection |-> Selector(nextSnapshot.state)]

\* the callback subscribeWithSelector hands to store.subscribe; on a
\* changed selection onStoreChange() makes the component render again
OnStore(h, store) ==
  LET next == MemoizedSelector(h, Snapshot(store))
  IN IF next.selection # h.previousSelection
       THEN [next.hook EXCEPT !.previousSelection = next.selection,
                              !.told = @ + 1,
                              !.rendered = next.selection]
       ELSE next.hook

\* the listener the component's useSelector subscribes
Component == "hook"

\* for (const listener of listeners) listener(state): [calls, hook]
RECURSIVE MockNotify(_, _, _, _)
MockNotify(store, i, made, h) ==
  IF i > Len(store.listeners)
    THEN [calls |-> made, hook |-> h]
    ELSE MockNotify(store, i + 1,
                    Append(made, [listener |-> store.listeners[i], state |-> store.state]),
                    IF store.listeners[i] = Component THEN OnStore(h, store) ELSE h)

\* dispatch(event) of a mock store: [store, calls, hook]
MockStoreDispatch(store, event, h) ==
  LET newState == Reduce(mockConfig.reducer, store.state, event)
      after == IF store.reducing
                 THEN [store EXCEPT !.state = Assign(store.state, newState)]
                 ELSE store
      told == MockNotify(after, 1, <<>>, h)
  IN [store |-> after, calls |-> told.calls, hook |-> told.hook]

\* bridge.getStore(key) of the mock bridge
MockGetStore ==
  /\ ~mockStore.made
  /\ mockStore' = Cached
  /\ mockCalls' = <<>>
  /\ lastMock' = NoMockCall
  /\ hook' = [hook EXCEPT !.told = 0]
  /\ UNCHANGED <<mockConfig, bridgeContext, storeContext>>
  /\ UNCHANGED <<hostVars, wireVars, clientVars, obsVars, utilVars>>

\* store.subscribe(listener) of a mock store
MockSubscribe(l) ==
  /\ mockStore.made
  /\ Len(mockStore.listeners) < MaxListeners
  /\ mockStore' = [mockStore EXCEPT !.listeners = Append(@, l)]
  /\ mockCalls' = <<[listener |-> l, state |-> mockStore.state]>>
  /\ lastMock' = NoMockCall
  /\ hook' = [hook EXCEPT !.told = 0]
  /\ UNCHANGED <<mockConfig, bridgeContext, storeContext>>
  /\ UNCHANGED <<hostVars, wireVars, clientVars, obsVars, utilVars>>

\* store.dispatch(event) of a mock store
MockDispatch(event) ==
  /\ mockStore.made
  /\ mockStore.reducing => Reducible(mockStore.state, event)
  /\ \E d \in {MockStoreDispatch(mockStore, event, [hook EXCEPT !.told = 0])} :
        /\ mockStore' = d.store
        /\ mockCalls' = d.calls
        /\ hook' = d.hook
  /\ lastMock' = [NoMockCall EXCEPT !.op = "dispatch", !.before = mockStore.state,
                                    !.event = event]
  /\ UNCHANGED <<mockConfig, bridgeContext, storeContext>>
  /\ UNCHANGED <<hostVars, wireVars, clientVars, obsVars, utilVars>>

\* produce(key, producer) of the mock native bridge: getStore, the producer
\* on a JSON copy, Object.assign onto the store's state, and a dispatch of
\* {type: 'STATE_UPDATE', payload: draft}
MockProduce(r) ==
  /\ Applicable(r, Cached.state)
  /\ \E draft \in {Recipe(r, Cached.state)} :
     \E d \in {MockStoreDispatch([Cached EXCEPT !.state = Assign(@, draft)],
                                 Event("STATE_UPDATE", 0), [hook EXCEPT !.told = 0])} :
        /\ mockStore' = d.store
        /\ mockCalls' = d.calls
        /\ hook' = d.hook
  /\ lastMock' = [NoMockCall EXCEPT !.op = "produce", !.before = Cached.state,
                                    !.recipe = r]
  /\ UNCHANGED <<mockConfig, bridgeContext, storeContext>>
  /\ UNCHANGED <<hostVars, wireVars, clientVars, obsVars, utilVars>>

\* BridgeContext.Provider mounts with the mock bridge
MountBridge ==
  /\ ~bridgeContext
  /\ bridgeContext' = TRUE
  /\ mockCalls' = <<>>
  /\ lastMock' = NoMockCall
  /\ hook' = [hook EXCEPT !.told = 0]
  /\ UNCHANGED <<mockConfig, mockStore, storeContext>>
  /\ UNCHANGED <<hostVars, wireVars, clientVars, obsVars, utilVars>>

\* the store context's Provider mounts with a store of the mock bridge
MountStore ==
  /\ ~storeContext
  /\ mockStore.made
  /\ storeContext' = TRUE
  /\ mockCalls' = <<>>
  /\ lastMock' = NoMockCall
  /\ hook' = [hook EXCEPT !.told = 0]
  /\ UNCHANGED <<mockConfig, mockStore, bridgeContext>>
  /\ UNCHANGED <<hostVars, wireVars, clientVars, obsVars, utilVars>>

\* the effect of StoreConnector, and the promise of getStore resolving
StoreConnector ==
  /\ ~storeContext
  /\ bridgeContext /\ mockConfig.supported
  /\ mockStore' = Cached
  /\ storeContext' = TRUE
  /\ mockCalls' = <<>>
  /\ lastMock' = NoMockCall
  /\ hook' = [hook EXCEPT !.told = 0]
  /\ UNCHANGED <<mockConfig, bridgeContext>>
  /\ UNCHANGED <<hostVars, wireVars, clientVars, obsVars, utilVars>>

\* BridgeContext.Supported renders its children
Supported == bridgeContext /\ mockConfig.supported

\* BridgeContext.Unsupported renders its children
Unsupported == ~bridgeContext \/ ~mockConfig.supported

\* the store context's Initialized renders its children
Initialized == (bridgeContext /\ mockConfig.supported) /\ storeContext

\* an Initializing that does not ask the bridge
InitializingAlone == ~storeContext

\* the store context's Initializing renders its children
Initializing == (bridgeContext /\ mockConfig.supported) /\ ~storeContext

\* a component calls useSelector(state => state.count): the first render,
\* then the subscription, whose store.subscribe calls the callback at once
UseSelector ==
  /\ storeContext
  /\ ~hook.mounted
  /\ Len(mockStore.listeners) < MaxListeners
  /\ LET first == MemoizedSelector([Unmounted EXCEPT !.mounted = TRUE], Snapshot(mockStore))
         rendered == [first.hook EXCEPT !.rendered = first.selection,
                                        !.previousSelection = first.selection]
         store == [mockStore EXCEPT !.listeners = Append(@, Component)]
     IN /\ mockStore' = store
        /\ hook' = OnStore(rendered, store)
        /\ mockCalls' = <<[listener |-> Component, state |-> mockStore.state]>>
  /\ lastMock' = NoMockCall
  /\ UNCHANGED <<mockConfig, bridgeContext, storeContext>>
  /\ UNCHANGED <<hostVars, wireVars, clientVars, obsVars, utilVars>>

MockInit ==
  /\ \E config \in [Keys -> StoreConfigs] : CreatedBridges(config, FALSE)
  /\ heap = <<>>
  /\ initialState = NoRef
  /\ producedState = NoRef
  /\ lastRecipe = ""
  /\ \E config \in MockConfigs : MockCreated(config)

MockNext ==
  \/ MockGetStore
  \/ \E l \in Plain : MockSubscribe(l)
  \/ \E e \in MockEvents : MockDispatch(e)
  \/ \E r \in DeletingRecipes : MockProduce(r)
  \/ MountBridge
  \/ MountStore
  \/ StoreConnector
  \/ UseSelector

MockSpec == MockInit /\ [][MockNext]_vars

(***************************************************************************)
(* Claims.                                                                 *)
(***************************************************************************)
\* a WebViewOnMessage step is the only step that shortens toWeb
Delivering == toWeb # <<>> /\ toWeb' = Tail(toWeb)

\* the envelope being delivered, and what its two listeners do with it
Delivered == Head(toWeb)

AtBridge ==
  BridgeListener(Delivered,
                 IF Delivered.key \in DOMAIN storeInstances
                   THEN currentState[Delivered.key] ELSE EmptyDoc,
                 IF Delivered.key \in DOMAIN storeInstances
                   THEN listeners[Delivered.key] ELSE <<>>)

AtStore == MessageHandler(Delivered.key, Delivered, AtBridge.state, AtBridge.list)

\* C1: eventual consistency.  With nothing in flight towards the WebView and
\* no foreign envelope ever delivered, a mirror store of an attached WebView
\* that took every envelope sent for its key holds the host's authoritative
\* state for that key.
C1_EventualConsistency ==
  \A k \in Keys :
    ( /\ toWeb = <<>>
      /\ injected = 0
      /\ registeredWebViews # <<>>
      /\ k \in DOMAIN storeInstances
      /\ k \in handling
      /\ k \in gotState
      /\ k \notin missed )
    => currentState[k] = HostState(k)

\* C2: the promise getStore(key) returns is not resolved before a
\* STATE_UPDATE or STATE_PATCH envelope for the key has been received.
C2_ResolvedAfterFirstState ==
  \A k \in Keys : HasPromise(k) => k \in gotState

\* C3: what a mirror store's getState() returns, and every value passed to a
\* mirror subscriber, is a value the host's authoritative state for the key
\* has held.
C3_MirrorShowsHostValues ==
  /\ \A k \in DOMAIN storeInstances : currentState[k] \in hostHistory[k]
  /\ \A i \in 1..Len(calls) : calls[i].state \in hostHistory[calls[i].key]

\* C4: when a mirror store of a supported bridge holds A and a STATE_PATCH
\* carrying compare(A, B) is delivered, B a state of the host, the store
\* holds B afterwards.
C4_PatchRoundTrip ==
  [][ \A k \in Keys : \A B \in hostHistory[k] :
        ( /\ Delivering
          /\ supported /\ k \in handling
          /\ Delivered = StatePatch(k, Compare(currentState[k], B)) )
        => currentState'[k] = B ]_vars

\* C5: a STATE_PATCH whose operations do not all apply to the mirror's
\* current state leaves the mirror store's state as it was.
C5_NoPartialApplication ==
  [][ \A k \in DOMAIN storeInstances :
        ( /\ Delivering
          /\ supported /\ k \in handling
          /\ Delivered.type = "STATE_PATCH" /\ Delivered.key = k
          /\ ~ApplyPatch(currentState[k], Delivered.patches).ok )
        => currentState'[k] = currentState[k] ]_vars

\* C6: when applying a delivered STATE_PATCH fails in the mirror, a
\* REQUEST_FULL_STATE envelope for the key is posted and no subscriber of the
\* store is invoked for that envelope.
C6_FailedPatchRequestsNoNotify ==
  [][ ( /\ Delivering
        /\ Delivered.type = "STATE_PATCH"
        /\ (AtBridge.threw \/ AtStore.threw) )
      => /\ \E i \in 1..Len(toNative') : toNative'[i] = RequestFullState(Delivered.key)
         /\ calls' = <<>> ]_vars

\* an envelope is among the messages posted to the host
Posted(env) == \E i \in 1..Len(toNative) : toNative[i] = env

\* C7: fallback convergence.  Once a mirror has posted REQUEST_FULL_STATE for
\* a key, a STATE_UPDATE envelope carrying the host's authoritative state for
\* that key is eventually on its way to the WebView.
C7_FullStateReply ==
  \A k \in Keys :
    Posted(RequestFullState(k))
      ~> (\E i \in 1..Len(toWeb) : toWeb[i] = StateUpdate(k, HostState(k)))

\* how many times the reducer's events have been applied to a state
Applied(state) == state["count"].n + Len(state["items"].a)

\* C8: event round trip.  When a mirror store has dispatched an event for a
\* key the host has a reducer for, and the reducer takes the event in the
\* host's state, the host's authoritative state eventually moves on by it.
C8_EventReachesReducer ==
  \A k \in Keys : \A e \in Events : \A n \in 0..(MaxCount + MaxItems) :
    ( /\ Posted(EventEnvelope(k, e))
      /\ k \in reducers
      /\ Reducible(HostState(k), e)
      /\ Applied(HostState(k)) = n )
      ~> (Applied(HostState(k)) > n)

\* how many copies of an envelope a queue holds
InFlight(queue, env) == Cardinality({i \in 1..Len(queue) : queue[i] = env})

\* a step in which getStore(k) is called for the first time
FirstGetStore(k) == returned[k] = {} /\ returned'[k] # {}

\* C9 as stated: once getStore(k) has been called, every call returned one
\* future resolved to one store, one mirror store was created, and exactly
\* one INIT_STORE envelope for k was posted.
C9_ExactlyOneInit ==
  \A k \in Keys :
    returned[k] # {} =>
      /\ returned[k] = {storePromises[k]}
      /\ storeInstances[k] = storePromises[k]
      /\ created[k] = 1
      /\ initPosted[k] = 1

\* C9, amended: any number of getStore(k) calls return one future resolved
\* to one store and create one mirror store; the first call posts one
\* INIT_STORE envelope for k when the bridge is supported and
\* window.ReactNativeWebView is defined at that call, and none otherwise; no
\* later step posts another.
C9_AtMostOneInit ==
  [][ \A k \in Keys :
        /\ returned'[k] # {} =>
             /\ returned'[k] = {storePromises'[k]}
             /\ storeInstances'[k] = storePromises'[k]
             /\ created'[k] = 1
             /\ initPosted'[k] <= 1
        /\ IF FirstGetStore(k) /\ supported /\ hasRNWebView
             THEN /\ initPosted'[k] = 1
                  /\ toNative' = Append(toNative, InitStore(k))
             ELSE /\ initPosted'[k] = initPosted[k]
                  /\ InFlight(toNative', InitStore(k)) <= InFlight(toNative, InitStore(k)) ]_vars

\* a second getStore call for a key found the first call's promise
C9_SecondCallShares ==
  \E k \in Keys :
    /\ getStoreCalls = 2
    /\ returned[k] = {storePromises[k]}
    /\ created[k] = 1
    /\ initPosted[k] = 1

\* the frame of a mirror store's dispatch: what it leaves alone
DispatchFrame ==
  /\ currentState' = currentState
  /\ listeners' = listeners
  /\ calls' = <<>>
  /\ UNCHANGED <<storePromises, storeInstances, unsubs, handling, toWeb>>
  /\ UNCHANGED hostVars

\* C10 as stated: a mirror store's dispatch(event) leaves local state and
\* subscribers alone, invokes no subscriber, and posts one EVENT envelope.
C10_DispatchPostsEvent ==
  [][ lastDispatch' # NoDispatch =>
        /\ DispatchFrame
        /\ toNative' = Append(toNative,
                              EventEnvelope(lastDispatch'.key, lastDispatch'.event)) ]_vars

\* C10, amended: a mirror store's dispatch(event) leaves local state and
\* subscribers alone and invokes no subscriber; it posts one EVENT envelope
\* when the bridge is supported and window.ReactNativeWebView is defined at
\* the call, and otherwise posts nothing.
C10_DispatchFrame ==
  [][ lastDispatch' # NoDispatch =>
        /\ DispatchFrame
        /\ toNative' =
             IF supported /\ hasRNWebView
               THEN Append(toNative,
                           EventEnvelope(lastDispatch'.key, lastDispatch'.event))
               ELSE toNative ]_vars

\* a store with a state and a subscriber has just dispatched, and its EVENT
\* envelope is the last message posted
C10_DispatchedWithSubscriber ==
  /\ lastDispatch # NoDispatch
  /\ lastDispatch.key \in DOMAIN storeInstances
  /\ currentState[lastDispatch.key] # EmptyDoc
  /\ listeners[lastDispatch.key] # <<>>
  /\ toNative # <<>>
  /\ toNative[Len(toNative)] = EventEnvelope(lastDispatch.key, lastDispatch.event)

\* C11: a STATE_UPDATE envelope for k delivered to a supported bridge that
\* has a store for k replaces the store's snapshot by the payload and invokes
\* every subscribed listener exactly once, with the payload.
C11_UpdateNotifiesOnce ==
  [][ \A k \in DOMAIN storeInstances :
        ( /\ Delivering
          /\ supported
          /\ Delivered.type = "STATE_UPDATE" /\ Delivered.key = k )
        => /\ currentState'[k] = Delivered.payload
           /\ calls' = [i \in 1..Len(listeners[k]) |->
                          Call(k, listeners[k][i], Delivered.payload)] ]_vars

\* a step that is a call of the host store's dispatch for a key with a reducer
Dispatching ==
  /\ lastNativeDispatch' # NoDispatch
  /\ lastNativeDispatch'.key \in reducers

\* C12: a host dispatch on a key with a reducer replaces the authoritative
\* snapshot by reducer(currentState, event), invokes the local subscribers
\* with that new state while the snapshot already is the new state and
\* nothing of this call has been sent yet, and then sends the broadcast for
\* the new state.
C12_DispatchOrder ==
  [][ Dispatching =>
        LET k == lastNativeDispatch'.key
            newState == Reducer(HostState(k), lastNativeDispatch'.event)
        IN /\ stateMap'[k] = newState
           /\ nativeListeners[k] # <<>> => nativeCalls' # <<>>
           /\ \A i \in 1..Len(nativeCalls') :
                /\ nativeCalls'[i].key = k
                /\ \E j \in 1..Len(nativeListeners[k]) :
                     nativeListeners[k][j] = nativeCalls'[i].listener
                /\ nativeCalls'[i].state = newState
                /\ nativeCalls'[i].snapshot = newState
                /\ nativeCalls'[i].sent = 0
           /\ toWeb' = UpdateWebViewsWithPatch(k, newState, stateMap', previousStates,
                                                toWeb, StartFan).queue ]_vars

\* a host dispatch has just invoked a subscriber and queued its broadcast
C12_DispatchedToSubscriberAndView ==
  /\ lastNativeDispatch # NoDispatch
  /\ nativeCalls # <<>>
  /\ nativeCalls[1].state = stateMap[lastNativeDispatch.key]
  /\ toWeb # <<>>
  /\ toWeb[Len(toWeb)].key = lastNativeDispatch.key
  /\ toWeb[Len(toWeb)].type = "STATE_PATCH"

\* C13: a host dispatch on a key with no reducer bound changes nothing: the
\* authoritative state, the subscribers and the queue towards the WebViews
\* stay as they are, and no local subscriber is invoked.
C13_NoReducerNoOp ==
  [][ (lastNativeDispatch' # NoDispatch /\ lastNativeDispatch'.key \notin reducers)
      => /\ UNCHANGED <<hostVars, wireVars, clientVars>>
         /\ nativeCalls' = <<>>
         /\ calls' = <<>> ]_vars

\* a dispatch has just been made on a host store that has a state, a
\* subscriber and an attached WebView, but no reducer
C13_DispatchedWithoutReducer ==
  /\ lastNativeDispatch # NoDispatch
  /\ lastNativeDispatch.key \notin reducers
  /\ lastNativeDispatch.key \in DOMAIN stateMap
  /\ nativeListeners[lastNativeDispatch.key] # <<>>
  /\ registeredWebViews # <<>>

\* a step that is a call of the host bridge's produce for key k: the only
\* step besides a dispatch that replaces the authoritative state
Producing(k) ==
  /\ lastNativeDispatch' = NoDispatch
  /\ k \in DOMAIN stateMap'
  /\ HostState(k) # stateMap'[k]

\* C14: host produce(key, recipe) has the effect of a dispatch: it replaces
\* the authoritative snapshot by the recipe applied to the current state,
\* invokes every listener subscribed to the host store for the key with the
\* new state, and broadcasts the new state.
C14_ProduceLikeDispatch ==
  [][ \A k \in Keys :
        Producing(k) =>
          /\ \E r \in Recipes : stateMap'[k] = Produce(HostState(k), r)
          /\ k \in DOMAIN stores =>
               \A j \in 1..Len(nativeListeners[k]) :
                 \E i \in 1..Len(nativeCalls') :
                   /\ nativeCalls'[i].listener = nativeListeners[k][j]
                   /\ nativeCalls'[i].state = stateMap'[k]
          /\ toWeb' = UpdateWebViewsWithPatch(k, stateMap'[k], stateMap', previousStates,
                                               toWeb, StartFan).queue ]_vars

\* C15: host produce on a key the bridge holds no state for starts from the
\* empty state, stores the recipe's result as the key's authoritative state,
\* and broadcasts it to every attached WebView.
C15_ProduceUnknownKey ==
  [][ \A k \in Keys :
        (Producing(k) /\ k \notin DOMAIN stateMap) =>
          /\ \E r \in Recipes :
               Applicable(r, EmptyDoc) /\ stateMap'[k] = Recipe(r, EmptyDoc)
          /\ toWeb' = toWeb \o [i \in 1..Len(registeredWebViews) |->
                                  StateUpdate(k, stateMap'[k])]
          /\ previousStates'[k] = stateMap'[k] ]_vars

\* produce has just materialised a key the bridge did not hold, and its
\* state is on its way to an attached WebView
C15_ProducedUnknownKey ==
  \E k \in Keys :
    /\ k \in DOMAIN stateMap
    /\ hostHistory[k] = {EmptyDoc, stateMap[k]}
    /\ stateMap[k] # EmptyDoc
    /\ toWeb # <<>>
    /\ toWeb[Len(toWeb)] = StateUpdate(k, stateMap[k])

\* C16: subscribe(listener) on a host store invokes the listener once with
\* the current snapshot, and every later transition of the store's state
\* invokes each subscribed listener with the new state (stated for stores
\* whose listeners never unsubscribe from inside a callback).
C16_SubscribersSeeEveryTransition ==
  [][ \A k \in DOMAIN stores :
        /\ Len(nativeListeners'[k]) > Len(nativeListeners[k]) =>
             /\ Len(nativeCalls') = 1
             /\ nativeCalls'[1].listener = nativeListeners'[k][Len(nativeListeners'[k])]
             /\ nativeCalls'[1].state = HostState(k)
        /\ ( /\ k \in DOMAIN stateMap'
             /\ stateMap'[k] # HostState(k)
             /\ \A j \in 1..Len(nativeListeners[k]) : nativeListeners[k][j] \in Plain )
           => \A j \in 1..Len(nativeListeners[k]) :
                \E i \in 1..Len(nativeCalls') :
                  /\ nativeCalls'[i].listener = nativeListeners[k][j]
                  /\ nativeCalls'[i].state = stateMap'[k] ]_vars

\* C17: calling an unsubscribe closure a second time leaves the store's
\* listeners as the first call left them.  A step that neither subscribes,
\* nor notifies, nor is the first call of an unsubscribe closure does not
\* change the listeners of a host store.
C17_UnsubscribeIdempotent ==
  [][ \A k \in DOMAIN stores :
        (nativeUnsubs'[k] = nativeUnsubs[k] /\ nativeCalls' = <<>>)
        => nativeListeners'[k] = nativeListeners[k] ]_vars

\* the listener l has a subscription among subs whose unsubscribe closure
\* has not been called
Active(subs, l) == \E j \in 1..Len(subs) : subs[j].listener = l /\ ~subs[j].used

\* C18: a listener whose every subscription has had its unsubscribe closure
\* called is not invoked again, on the host's stores and on the mirror's:
\* whoever is invoked in a step has a subscription that was not unsubscribed
\* before the step, or makes one in it.
C18_UnsubscribedNotInvoked ==
  [][ /\ \A i \in 1..Len(nativeCalls') :
           LET k == nativeCalls'[i].key
               l == nativeCalls'[i].listener
           IN Active(nativeUnsubs[k], l) \/ Active(nativeUnsubs'[k], l)
      /\ \A i \in 1..Len(calls') :
           LET k == calls'[i].key
               l == calls'[i].listener
           IN Active(unsubs[k], l) \/ Active(unsubs'[k], l) ]_vars

\* a STATE_UPDATE has just been delivered to a mirror store on which "l1" had
\* subscribed and unsubscribed: only the other listener was invoked (and it
\* unsubscribed itself in its callback)
C18_DeliveredAfterUnsubscribe ==
  \E k \in DOMAIN storeInstances :
    /\ k \in handling
    /\ calls # <<>>
    /\ \A i \in 1..Len(calls) : calls[i].listener = "once"
    /\ ~Active(unsubs[k], "once")
    /\ \E j \in 1..Len(unsubs[k]) : unsubs[k][j].listener = "l1"
    /\ ~Active(unsubs[k], "l1")
    /\ currentState[k] = HostState(k)

\* C19: delivery at least once per change.  On a host dispatch that changes
\* the state, every listener that is subscribed before the call and still
\* subscribed after it is invoked with the new state, whatever the other
\* listeners do in their callbacks.
C19_DeliveredToEverySubscriber ==
  [][ Dispatching =>
        LET k == lastNativeDispatch'.key
        IN \A j \in 1..Len(nativeListeners[k]) :
             (\E n \in 1..Len(nativeListeners'[k]) :
                nativeListeners'[k][n] = nativeListeners[k][j])
             => \E i \in 1..Len(nativeCalls') :
                  /\ nativeCalls'[i].listener = nativeListeners[k][j]
                  /\ nativeCalls'[i].state = stateMap'[k] ]_vars

\* the envelopes a step adds to the queue towards the WebView
Sent == SubSeq(toWeb', Len(toWeb) + 1, Len(toWeb'))

\* C20: catch-up on attach.  registerWebView sends the endpoint one
\* STATE_UPDATE per key the host holds, carrying the key's latest state, and
\* nothing else; and the endpoint is never handed a STATE_PATCH for a key
\* before it has been handed a state envelope for that key, the first of
\* which therefore is a full snapshot.
C20_CatchUpOnAttach ==
  [][ /\ registeredWebViews' # registeredWebViews =>
           /\ Len(toWeb') = Len(toWeb) + Cardinality(DOMAIN stateMap)
           /\ \A k \in DOMAIN stateMap :
                InFlight(Sent, StateUpdate(k, stateMap[k])) = 1
      /\ (Delivering /\ Delivered.type = "STATE_PATCH") => Delivered.key \in gotState
    ]_vars

\* a WebView has just been attached after the host's state changed twice: the
\* one envelope on its way is the snapshot of the latest state
C20_AttachedLate ==
  \E k \in Keys :
    /\ registeredWebViews # <<>>
    /\ k \in DOMAIN stateMap
    /\ Cardinality(hostHistory[k]) >= 3
    /\ k \in DOMAIN previousStates
    /\ toWeb = <<StateUpdate(k, stateMap[k])>>
    /\ gotState = {}

\* a host dispatch or produce that changes the authoritative state of k
Changing(k) == k \in DOMAIN stateMap' /\ HostState(k) # stateMap'[k]

C22_IndependentFailures ==
  [][ \A k \in Keys :
        (Changing(k) /\ \E f \in throwing : IndexOf(registeredWebViews, f) # 0) =>
          /\ \A v \in Endpoints \ throwing :
               IndexOf(registeredWebViews, v) # 0 => Len(sentTo'[v]) = 1
          /\ k \in DOMAIN previousStates'
          /\ previousStates'[k] = stateMap'[k]
    ]_vars

\* the last-broadcast snapshot of k before this step ({} without one), the
\* snapshot after it, and the patch set between the two
Baseline(k) == IF k \in DOMAIN previousStates THEN previousStates[k] ELSE EmptyDoc

Broadcast(k) == k \in DOMAIN previousStates' /\ previousStates'[k] # Baseline(k)

PatchSet(k) == Compare(Baseline(k), previousStates'[k])

CountOne == "count" :> Num(1)

\* the host store for k, last broadcast as {count: 0}, goes to {count: 1}
ZeroToOne(k) ==
  /\ k \in DOMAIN previousStates
  /\ previousStates[k] = SmallState
  /\ HostState(k) = SmallState
  /\ k \in DOMAIN stateMap'
  /\ stateMap'[k] = CountOne

\* C24 as stated: for {count:0} -> {count:1} after a broadcast of {count:0}
\* the patch set is [{op:replace, path:/count, value:1}], it serialises
\* shorter than the new state, and the host sends STATE_PATCH.
C24_SmallTransitionSendsPatch ==
  [][ \A k \in Keys :
        ZeroToOne(k) =>
          /\ PatchSet(k) = <<Op("replace", "count", NoIdx, Num(1))>>
          /\ PatchJsonLen(PatchSet(k)) < DocJsonLen(CountOne)
          /\ \A v \in Endpoints :
               IndexOf(registeredWebViews, v) # 0 =>
                 Envs(sentTo'[v]) = <<StatePatch(k, PatchSet(k))>>
    ]_vars

\* C24: for {count:0} -> {count:1} after a broadcast of {count:0} the patch
\* set is [{op:replace, path:/count, value:1}]; it serialises to 44
\* characters, the new state to 11, and the host sends the STATE_UPDATE
\* snapshot, not a STATE_PATCH.
C24_SmallTransitionSendsSnapshot ==
  [][ \A k \in Keys :
        ZeroToOne(k) =>
          /\ PatchSet(k) = <<Op("replace", "count", NoIdx, Num(1))>>
          /\ PatchJsonLen(PatchSet(k)) = 44
          /\ DocJsonLen(CountOne) = 11
          /\ \A v \in Endpoints :
               IndexOf(registeredWebViews, v) # 0 =>
                 Envs(sentTo'[v]) = <<StateUpdate(k, CountOne)>>
    ]_vars

\* the page's WebView, which has run an envelope before, has still to run
\* the broadcast of {count: 0} and, behind it, the one of the dispatch just
\* made that took the state to {count: 1}
C24_ZeroThenOneSent ==
  \E k \in Keys :
    /\ k \in gotState
    /\ toWeb = <<StateUpdate(k, SmallState), StateUpdate(k, CountOne)>>
    /\ Envs(sentTo[PageView]) = <<StateUpdate(k, CountOne)>>
    /\ lastNativeDispatch # NoDispatch
    /\ stateMap[k] = CountOne

\* C25: in every broadcast that sends envelopes the last-broadcast snapshot
\* of the key is the new state when each envelope is sent, and an endpoint
\* attached during the sends, which is handed the snapshot S of the key, is
\* not then handed a patch set computed from a baseline other than S.
C25_SnapshotBeforeSend ==
  [][ \A k \in Keys :
        Broadcast(k) =>
          \A v \in Endpoints :
            \A j \in 1..Len(sentTo'[v]) :
              /\ sentTo'[v][j].baseline = stateMap'[k]
              /\ \A i \in 1..(j - 1) :
                   (/\ sentTo'[v][i].env.type = "STATE_UPDATE"
                    /\ sentTo'[v][j].env.type = "STATE_PATCH") =>
                     sentTo'[v][j].env.patches =
                       Compare(sentTo'[v][i].env.payload, stateMap'[k])
    ]_vars

\* C26: a message whose data is not valid JSON is dropped by the mirror:
\* no store's state changes, no subscriber is invoked or removed, and
\* nothing is posted to the host.
C26_MalformedDropped ==
  [][ (Delivering /\ \E k \in Keys : Delivered = Malformed(k)) =>
        /\ currentState' = currentState
        /\ listeners' = listeners
        /\ calls' = <<>>
        /\ toNative' = toNative
        /\ UNCHANGED <<storePromises, storeInstances, handling>>
    ]_vars

\* the one message handed to the page so far was not valid JSON; a store
\* with a messageHandler and a subscriber was there to take it
C26_MalformedDelivered ==
  \E k \in Keys :
    /\ injected = 1
    /\ toWeb = <<>>
    /\ registeredWebViews = <<>>
    /\ supported
    /\ k \in handling
    /\ listeners[k] # <<>>
    /\ calls = <<>>

C28_OneStorePerKey ==
  [][ \A k \in Keys :
        /\ Cardinality(nativeReturned'[k]) <= 1
        /\ (HasStore(k) /\ nativeReturned[k] # {}) => nativeReturned'[k] = {stores[k]}
        /\ NativeGetState(k)' =
             IF Dispatching /\ lastNativeDispatch'.key = k
               THEN Reducer(NativeGetState(k), lastNativeDispatch'.event)
             ELSE IF Producing(k)
               THEN stateMap'[k]
               ELSE NativeGetState(k)
        /\ Producing(k) =>
             \E r \in Recipes :
               /\ Applicable(r, NativeGetState(k))
               /\ NativeGetState(k)' = Recipe(r, NativeGetState(k))
    ]_vars

\* getStore has resolved to the store of a key whose state a dispatch and a
\* produce have changed since the bridge was created
C28_StoreAfterChanges ==
  \E k \in Keys :
    /\ HasStore(k)
    /\ nativeReturned[k] = {stores[k]}
    /\ Cardinality(hostHistory[k]) >= 3
    /\ NativeGetState(k) # EmptyDoc
    /\ nativeListeners[k] # <<>>

\* C29: host subscribers are notified only on a transition.  A dispatch
\* whose reducer returns the current state invokes no subscriber, and one
\* that changes the state invokes each subscriber exactly once.
C29_NotifiedOnlyOnTransition ==
  [][ Dispatching =>
        LET k == lastNativeDispatch'.key
        IN IF stateMap'[k] = HostState(k)
             THEN nativeCalls' = <<>>
             ELSE \A i \in 1..Len(nativeListeners[k]) :
                    nativeListeners[k][i] \in Plain =>
                      Cardinality({j \in 1..Len(nativeCalls') :
                                     nativeCalls'[j].listener = nativeListeners[k][i]})
                        = Cardinality({j \in 1..Len(nativeListeners[k]) :
                                         nativeListeners[k][j] = nativeListeners[k][i]})
    ]_vars

\* What a recipe makes of a value, as a function of the value alone.
Leaf(v) == [t |-> v.t, n |-> v.n, s |-> v.s, keys |-> <<>>, vals |-> <<>>]

Member(value, key) == value.vals[KeyIndex(value.keys, key)]

With(value, key, member) == [value EXCEPT !.vals[KeyIndex(value.keys, key)] = member]

Transformed(r, value) ==
  CASE r = "count" -> With(value, "count", Leaf(Num(1)))
    [] r = "user" ->
         With(value, "user",
              With(With(Member(value, "user"), "name", Leaf(Str("Jane"))), "settings",
                   With(Member(Member(value, "user"), "settings"), "theme",
                        Leaf(Str("dark")))))
    [] r = "todos" ->
         LET todos == Member(value, "todos")
             first == With(todos.vals[1], "completed", Leaf(Bool(TRUE)))
             third == [t |-> "obj", n |-> 0, s |-> "", keys |-> <<"id", "completed">>,
                       vals |-> <<Leaf(Num(3)), Leaf(Bool(FALSE))>>]
         IN With(value, "todos",
                 [todos EXCEPT !.vals = Append([@ EXCEPT ![1] = first], third)])

Produced == lastRecipe' # ""

\* C30: utils.produce returns a new value equal to the recipe applied to a
\* deep copy of the state, and leaves the input unchanged at every depth:
\* the input and the result share no object or array.
C30_ProduceCopiesDeeply ==
  [][ Produced =>
        /\ producedState'.n \notin 1..Len(heap)
        /\ Stringify(heap', producedState') = Transformed(lastRecipe', Stringify(heap, initialState))
        /\ Stringify(heap', initialState) = Stringify(heap, initialState)
        /\ \A c \in 1..Len(heap) : heap'[c] = heap[c]
        /\ Reach(heap', initialState) \cap Reach(heap', producedState') = {}
    ]_vars

\* produce changed nested members and an array of a state that was itself a
\* result of produce.
C30_NestedChanged ==
  /\ lastRecipe = "todos"
  /\ initialState.n > 7
  /\ Stringify(heap, Field(heap, Field(heap, initialState, "user"), "settings"))
       = Stringify(heap, Field(heap, Field(heap, producedState, "user"), "settings"))
  /\ Field(heap, Field(heap, initialState, "user"), "name") = Str("Jane")
  /\ Len(heap[Field(heap, producedState, "todos").n].vals)
       = 1 + Len(heap[Field(heap, initialState, "todos").n].vals)
  /\ Field(heap, Item(heap, Field(heap, initialState, "todos"), 1), "completed") = Bool(FALSE)

\* C37: every host dispatch (with a reducer) or produce whose resulting state
\* differs from the state the key held before the call sends exactly one
\* envelope (STATE_PATCH or STATE_UPDATE) to each attached endpoint, the
\* first change after bridge creation and a change to the empty object
\* included; a call whose resulting state equals the last-broadcast snapshot
\* sends no envelope.
C37_EveryChangeIsSent ==
  [][ \A k \in Keys :
        /\ Changing(k) =>
             \A v \in Endpoints :
               IndexOf(registeredWebViews, v) # 0 =>
                 /\ Len(sentTo'[v]) = 1
                 /\ sentTo'[v][1].env.key = k
                 /\ sentTo'[v][1].env.type \in {"STATE_UPDATE", "STATE_PATCH"}
        /\ ( /\ Dispatching \/ Producing(k)
             /\ k \in DOMAIN stateMap'
             /\ stateMap'[k] = Baseline(k) )
           => \A v \in Endpoints : sentTo'[v] = <<>>
    ]_vars

\* C38: a key configured at bridge creation with a reducer has the reducer
\* bound whether or not an initial state was supplied: dispatch(event) on its
\* store replaces the authoritative state by reducer(currentState, event),
\* notifies the subscribers and broadcasts.  (Every key of ReducerSpec is
\* configured with a reducer.)
C38_ConfiguredReducerBound ==
  [][ \A k \in Keys :
        ( /\ lastNativeDispatch' # NoDispatch
          /\ lastNativeDispatch'.key = k
          /\ Reducible(HostState(k), lastNativeDispatch'.event) )
        => LET newState == Reducer(HostState(k), lastNativeDispatch'.event)
           IN /\ k \in DOMAIN stateMap'
              /\ stateMap'[k] = newState
              /\ Len(nativeCalls') = Len(nativeListeners[k])
              /\ \A i \in 1..Len(nativeCalls') : nativeCalls'[i].state = newState
              /\ (newState # Baseline(k) /\ registeredWebViews # <<>>)
                   => sentTo'[PageView] # <<>>
    ]_vars

\* the REQUEST_FULL_STATE envelopes for k that this step posts
Requests(k) ==
  Cardinality({i \in (Len(toNative) + 1)..Len(toNative') :
                 toNative'[i] = RequestFullState(k)})

\* C36: for each STATE_PATCH envelope delivered to a mirror, the mirror posts
\* exactly one REQUEST_FULL_STATE envelope if the patch fails to apply to the
\* state the mirror held when the envelope arrived, and none if it applies
\* cleanly to that state.
C36_OneRequestPerFailedPatch ==
  [][ \A k \in DOMAIN storeInstances :
        ( /\ Delivering
          /\ Parses(Delivered)
          /\ supported /\ k \in handling
          /\ Delivered.type = "STATE_PATCH" /\ Delivered.key = k )
        => Requests(k) = IF ApplyPatch(currentState[k], Delivered.patches).ok THEN 0 ELSE 1
    ]_vars

\* C40: graceful degradation.  On a client bridge created where no WebView
\* host is detected (isSupported() is false), getStore(key) still resolves to
\* a store, no operation on the bridge or its stores posts an envelope or
\* registers a message listener, dispatch leaves the state unchanged, and a
\* subscriber is only ever called once, at subscription.
C40_GracefulDegradation ==
  [][ ~IsSupported =>
        /\ toNative' = toNative \/ (toNative # <<>> /\ toNative' = Tail(toNative))
        /\ handling' = {}
        /\ \A k \in Keys :
             /\ returned'[k] # returned[k] =>
                  /\ k \in DOMAIN storeInstances'
                  /\ returned'[k] = {storeInstances'[k]}
             /\ k \in DOMAIN storeInstances =>
                  /\ k \in DOMAIN storeInstances'
                  /\ currentState'[k] = currentState[k]
                  /\ IF Len(unsubs'[k]) > Len(unsubs[k])
                       THEN calls' = <<Call(k, listeners'[k][Len(listeners'[k])],
                                            currentState[k])>>
                       ELSE calls' = <<>>
    ]_vars

\* an unsupported bridge whose page has gained window.ReactNativeWebView
\* since: its store has a subscriber, a state envelope for it went through
\* the message event, and dispatch has just been called on it
C40_DegradedStoreUsed ==
  /\ ~IsSupported
  /\ hasRNWebView
  /\ \E k \in Keys :
       /\ k \in DOMAIN storeInstances
       /\ listeners[k] # <<>>
       /\ lastDispatch # NoDispatch
       /\ lastDispatch.key = k
       /\ k \in gotState
       /\ currentState[k] = EmptyDoc
       /\ initPosted[k] = 0
  /\ toNative = <<>>

\* C35: whenever no host dispatch or produce call is in progress, for each
\* key that has been broadcast at least once the last-broadcast snapshot (the
\* baseline of the next diff) equals the host's authoritative state for the
\* key, also after calls made by a subscriber from inside its callback.
C35_BaselineIsAuthoritative ==
  \A k \in DOMAIN previousStates : previousStates[k] = HostState(k)

\* C34: delivering a STATE_UPDATE or STATE_PATCH envelope for key k, whether
\* its patch applies or fails, leaves the state and the subscribers of every
\* mirror store for another key as they were and invokes subscribers of the
\* store for k only; when no store has key k, no state changes, nobody is
\* invoked and nothing is posted.
C34_KeyIsolation ==
  [][ (Delivering /\ Parses(Delivered)
         /\ Delivered.type \in {"STATE_UPDATE", "STATE_PATCH"})
      => /\ \A k \in DOMAIN storeInstances \ {Delivered.key} :
              /\ currentState'[k] = currentState[k]
              /\ listeners'[k] = listeners[k]
         /\ \A i \in 1..Len(calls') : calls'[i].key = Delivered.key
         /\ Delivered.key \notin DOMAIN storeInstances
              => /\ currentState' = currentState
                 /\ calls' = <<>>
                 /\ toNative' = toNative ]_vars

\* a patch for one key has failed on a page whose store for another key
\* holds a different state and has a subscriber
C34_OtherStoreKept ==
  \E k \in DOMAIN storeInstances, o \in DOMAIN storeInstances :
    /\ k # o
    /\ \E i \in 1..Len(toNative) : toNative[i] = RequestFullState(k)
    /\ listeners[o] # <<>>
    /\ currentState[o] \in InitialStates
    /\ currentState[k] # currentState[o]

\* every subscription of the mock store was called once, in order, with
\* the given state
MockToldOnce(state) ==
  /\ Len(mockCalls) = Len(mockStore.listeners)
  /\ \A i \in 1..Len(mockCalls) :
        mockCalls[i] = [listener |-> mockStore.listeners[i], state |-> state]

\* C31: after dispatch(event) on a store made by createMockStoreWithReducer
\* with a reducer, getState() is reducer(state before, event), also for a
\* reducer that drops a key, and every subscribed listener was invoked once
\* with that value.
C31_MockDispatchReduces ==
  (lastMock.op = "dispatch" /\ mockStore.reducing)
    => /\ mockStore.state = Reduce(mockConfig.reducer, lastMock.before, lastMock.event)
       /\ MockToldOnce(Reduce(mockConfig.reducer, lastMock.before, lastMock.event))

\* C32: after produce(key, recipe) on the mock native bridge, the store's
\* getState() is the recipe applied to a copy of the state before, also for
\* a recipe that deletes a property, and every subscribed listener was
\* invoked once with that value.
C32_MockProduceApplies ==
  lastMock.op = "produce"
    => /\ mockStore.state = Recipe(lastMock.recipe, lastMock.before)
       /\ MockToldOnce(Recipe(lastMock.recipe, lastMock.before))

C39_SelectionIsCurrent ==
  (hook.mounted /\ mockStore.reducing /\ lastMock.op = "dispatch")
    => /\ hook.memoizedSelection = Selector(mockStore.state)
       /\ Selector(mockStore.state) # Selector(lastMock.before) => hook.told > 0
       /\ hook.rendered = Selector(mockStore.state)

====
